---- MODULE Spec2Model ----
(***************************************************************************)
(* State-machine model of the AI accelerator driver:                       *)
(*   - driver/ai_accel.c : buffer and model handle tables (idr), the       *)
(*     fence counter and the statistics counters, driven by the ioctl      *)
(*     handlers alloc / free / load_model / submit;                        *)
(*   - driver/ai_dma.c   : the DMA channel pool and the synchronous and    *)
(*     asynchronous transfer routines.                                     *)
(* Every handler is split at the points where another thread can observe   *)
(* or change shared state (mutex acquire, mutex release, atomic ops).      *)
(***************************************************************************)
EXTENDS Integers, Sequences, FiniteSets, Bags, TLC

(***************************************************************************)
(* Bounds of the model.                                                    *)
(***************************************************************************)
MaxHandle == 1
MaxSubmits == 2
\* callers that may be inside the transfer routines of ai_dma.c at once
MaxTransfers == 5
\* successful inference submissions that are followed
MaxJobs == 2
\* blocks of coherent memory the DMA allocator can hand out
MaxBlocks == 2
\* adev->mem_size, in pages
MemPages == 3
\* calls of alloc_memory and free_memory each opener makes
MaxMemCalls == 2
\* fence values a caller can name
MaxFence == 2
\* callers of ai_dma_transfer_sync beside the ioctl callers
LockTransfers == 1
\* callers of the transfer routines around a module unload
ExitTransfers == 1
\* user pages that may be pinned at once
MaxPinned == 6

\* two concurrent callers of the ioctl interface
Threads == {1, 2}
Handles == 1..MaxHandle
\* handle values a caller may pass: 0 and unused ids are never live
UserHandles == 0..MaxHandle
NULL == 0
\* addresses of records: one per table entry and one per call in progress
Ptrs == 1..(2 * MaxHandle + Cardinality(Threads))

(***************************************************************************)
(* Program constants.                                                      *)
(***************************************************************************)
\* caps.max_alloc_size = 256ULL << 20
max_alloc_size == 268435456
\* atomic_t is a 32-bit signed int; kernel atomics wrap in two's complement
INT_MAX == 2147483647
INT_MIN == (-INT_MAX) - 1
\* #define AI_DMA_CHANNELS 4
AI_DMA_CHANNELS == 4
Channels == 0..(AI_DMA_CHANNELS - 1)
\* the channels dma_request_channel hands out in ai_dma_init: none, all, some
ObtainedSets == {{}, Channels, {2, 3}}
\* request sizes offered by callers (struct ai_alloc_request.size, __u64)
AllocSizes == {0, 1, max_alloc_size, max_alloc_size + 1}
\* input_size/output_size offered to submit (__u32)
IoSizes == {4096}
\* size offered to ai_dma_transfer_sync / ai_dma_transfer_async (size_t)
XferSizes == {0, 4096}
\* PAGE_SIZE of the build (4 KiB pages)
PAGE_SIZE == 4096
\* offset_in_page(user_addr) and size offered to ai_dma_map_user_buffer
Offsets == {0, 1, 100, PAGE_SIZE - 1}
MAP_FAILED == -1
\* the addresses mmap hands out
MapAddrs == {1, 2}
\* size_t arguments of the copy calls; a negative number is its 64-bit
\* two's complement pattern
CopyOffsets == {0, PAGE_SIZE, -1}
CopySizes == {1, 2, PAGE_SIZE, 2 * PAGE_SIZE + 1}
MapSizes == {1, 10, PAGE_SIZE - 1, PAGE_SIZE, PAGE_SIZE + 1, 2 * PAGE_SIZE}

(***************************************************************************)
(* 64-bit unsigned values, as four 16-bit limbs, most significant first.   *)
(***************************************************************************)
Limb == 2 ^ 16
U64Zero == <<0, 0, 0, 0>>

\* (u64)(int)c : sign extension of a 32-bit signed int to 64 bits
ToU64(c) ==
    LET ext == IF c < 0 THEN Limb - 1 ELSE 0
    IN  <<ext, ext, (c \div Limb) % Limb, c % Limb>>

\* zero extension of the 32-bit pattern of c (the count of increments mod 2^32)
ZeroExt32(c) == <<0, 0, (c \div Limb) % Limb, c % Limb>>

U64Less(a, b) ==
    \E i \in 1..4 : a[i] < b[i] /\ \A j \in 1..(i - 1) : a[j] = b[j]

\* a + n modulo 2^64, for 0 <= n < 2^31
U64Add(a, n) ==
    LET s4 == a[4] + n
        s3 == a[3] + (s4 \div Limb)
        s2 == a[2] + (s3 \div Limb)
        s1 == a[1] + (s2 \div Limb)
    IN  <<s1 % Limb, s2 % Limb, s3 % Limb, s4 % Limb>>

\* a + b modulo 2^64
U64Plus(a, b) ==
    LET s4 == a[4] + b[4]
        s3 == a[3] + b[3] + (s4 \div Limb)
        s2 == a[2] + b[2] + (s3 \div Limb)
        s1 == a[1] + b[1] + (s2 \div Limb)
    IN  <<s1 % Limb, s2 % Limb, s3 % Limb, s4 % Limb>>

\* a * n modulo 2^64, for n >= 0
RECURSIVE U64Times(_, _)
U64Times(a, n) ==
    IF n = 0 THEN U64Zero
    ELSE LET half == U64Times(a, n \div 2)
             dbl == U64Plus(half, half)
         IN  IF n % 2 = 1 THEN U64Plus(dbl, a) ELSE dbl

\* a - b modulo 2^64
U64Minus(a, b) ==
    LET d4 == a[4] - b[4]
        d3 == a[3] - b[3] - (IF d4 < 0 THEN 1 ELSE 0)
        d2 == a[2] - b[2] - (IF d3 < 0 THEN 1 ELSE 0)
        d1 == a[1] - b[1] - (IF d2 < 0 THEN 1 ELSE 0)
    IN  <<d1 % Limb, d2 % Limb, d3 % Limb, d4 % Limb>>

\* min_t(size_t, a, b)
U64Min(a, b) == IF U64Less(b, a) THEN b ELSE a

\* (unsigned int)a : the low 32 bits
U64ToUInt(a) == a[3] * Limb + a[4]

VARIABLES
    lock,                   \* dev->lock: 0 when free, else the holding thread
    buffer_idr,             \* dev->buffer_idr: handle -> struct ai_buffer *
    model_idr,              \* dev->model_idr:  handle -> struct ai_model *
    fence_counter,          \* dev->fence_counter (atomic_t)
    total_inferences,       \* dev->total_inferences (atomic64_t)
    total_bytes_processed,  \* dev->total_bytes_processed (atomic64_t)
    heap,                   \* records allocated and not kfree'd
    pc,                     \* position of each thread in its ioctl handler
    loc,                    \* locals of the handler each thread is running
    channel_bitmap,         \* channel_bitmap: the set of bits that are set
    dma_channels,           \* dma_channels[i]: TRUE when not NULL
    xfers,                  \* bag of the transfer contexts of the DMA callers
    init_ret,               \* what the last ai_dma_init call returned
    pinned,                 \* user pages pinned by pin_user_pages_fast
    dma_maps,               \* pages under a live dma_map_sg mapping
    ubuf,                   \* the caller of ai_dma_map_user_buffer: its locals
    channel_lock,           \* channel_lock: 1 while a caller holds the spinlock
    adev,                   \* ai_ioctl.c: the device's mem_used and its coherent memory
    ioc,                    \* ai_ioctl.c: the last call of ai_accel_ioctl at its return
    hist,                   \* history of the ai_accel_ioctl calls
    leaks,                  \* history: records a load_model left allocated and lost
    g_initialized,          \* libaidrv.c: g_initialized
    devnode,                \* whether /dev/ai_accel exists
    device,                 \* libaidrv.c: the caller's ai_device_t
    buffer,                 \* libaidrv.c: the caller's ai_buffer_t
    job,                    \* libaidrv.c: the caller's ai_job_t
    libcall,                \* the last library call at its return
    live,                   \* history: handle -> successful allocs of it not yet freed
    freed,                  \* history: handles freed and not allocated again since
    fence_log,              \* history: fences in the order the counter issued them
    mm,                     \* ai_ioctl.c: each caller inside alloc_memory or free_memory
    delivered               \* history: the last two outputs submit_inference copied back

accel_vars == <<lock, buffer_idr, model_idr, fence_counter, total_inferences,
                total_bytes_processed, heap, pc, loc, live, freed, fence_log,
                leaks>>
map_vars == <<pinned, dma_maps, ubuf>>
\* the variables that no action of the handle tables or of the channel pool
\* writes
ioctl_vars == <<adev, ioc, hist>>
lib_vars == <<g_initialized, devnode, device, buffer, job, libcall>>
ext_vars == <<ioctl_vars, lib_vars, mm, delivered>>
side_vars == <<init_ret, map_vars, channel_lock, ext_vars>>
pool_vars == <<channel_bitmap, dma_channels, xfers, init_ret, channel_lock>>
\* the variables that no call of the library or of ai_accel_ioctl writes
kernel_vars == <<accel_vars, pool_vars, map_vars, mm, delivered>>
dma_vars == <<channel_bitmap, dma_channels, xfers, side_vars>>
vars == <<accel_vars, dma_vars>>

NoLoc == [ret |-> "0", size |-> 0, h |-> 0, p |-> NULL, wr |-> TRUE,
          m |-> 0, i |-> 0, o |-> 0, valid |-> FALSE, fence |-> U64Zero,
          nr |-> 0, known |-> FALSE]
EmptyIdr == [k \in {} |-> NULL]

\* a caller of ai_dma.c outside the transfer routines; inside them the record
\* holds the locals chan and xfer (struct ai_dma_transfer) of the call, and
\* the argument size until dmaengine_prep_dma_memcpy has used it:
\*   op      - the descriptor: "none", "pending" on the channel, "completed"
\*             by the hardware, or "killed" by dmaengine_terminate_sync; an
\*             idle caller keeps here the fate of its last asynchronous one
\*   done    - xfer.done, the completions signalled and not yet consumed
\*   status, stamped - xfer.status, and whether xfer.end_time was written
\*   signals, consumed, pool_kept - history: completions delivered to this
\*             context, whether its waiter consumed one, and whether
\*             channel_bitmap at the return equalled channel_bitmap at entry
\*   entry   - history: channel_bitmap when the call read it
IdleXfer == [pc |-> "idle", ret |-> "0", chan |-> -1, size |-> 0,
             op |-> "none", done |-> 0,
             status |-> "0", stamped |-> FALSE, signals |-> 0,
             consumed |-> FALSE, entry |-> {}, pool_kept |-> TRUE]

\* the caller of ai_dma_map_user_buffer and ai_dma_free_buffer, outside them;
\* inside, the record holds the arguments and locals of the call:
\*   o, size  - offset_in_page(user_addr) and size
\*   buf, pages, sgmem - whether the descriptor, the page array and the
\*             scatterlist array are allocated
\*   sg       - buf->sg: the entries written by sg_set_page, <<len, offset>>
\*   pinned0, maps0 - history: pinned and dma_maps when the build began
IdleBuf == [pc |-> "idle", ret |-> "0", o |-> 0, size |-> 0, nr_pages |-> 0,
            buf |-> FALSE, pages |-> FALSE, sgmem |-> FALSE, sg |-> <<>>,
            sg_count |-> 0, mapped |-> FALSE, pinned0 |-> 0, maps0 |-> 0]

(***************************************************************************)
(* idr: allocation of the smallest unused id >= 1, lookup, removal.        *)
(***************************************************************************)
IdrFree(idr) == Handles \ DOMAIN idr

\* idr_alloc(idr, ptr, 1, 0, GFP_KERNEL): the smallest id >= 1 not in use
IdrAlloc(idr) ==
    CHOOSE id \in IdrFree(idr) : \A k \in IdrFree(idr) : id <= k

IdrInsert(idr, id, ptr) ==
    [k \in DOMAIN idr \cup {id} |-> IF k = id THEN ptr ELSE idr[k]]

IdrFind(idr, id) == IF id \in DOMAIN idr THEN idr[id] ELSE NULL

IdrRemove(idr, id) == [k \in DOMAIN idr \ {id} |-> idr[k]]

\* kzalloc: an address not currently allocated (a freed address may come back)
NewPtr == CHOOSE q \in Ptrs \ heap : \A r \in Ptrs \ heap : q <= r

\* the records a table or a handler's local pointer still refers to; a record
\* that nothing refers to any more cannot be reached again and is dropped
Referenced(bidr, midr, l) ==
    {bidr[k] : k \in DOMAIN bidr} \cup {midr[k] : k \in DOMAIN midr}
        \cup {l[t].p : t \in Threads}

\* history counter, kept small: 2 stands for "two or more"
Bump(n) == IF n < 2 THEN n + 1 ELSE n

(***************************************************************************)
(* The ioctl module, ai_ioctl.c: the values its calls start from.          *)
(***************************************************************************)
\* ctx as ai_accel_ioctl initialises it on entry
FreshCtx == [total_inferences |-> 0, total_bytes_transferred |-> 0]

\* no struct ai_accel_stats has been copied out
NoStats ==
    [valid |-> FALSE, total_inferences |-> 0, total_bytes_in |-> 0,
     total_bytes_out |-> 0, memory_used |-> 0, completed_jobs |-> 0]

\* the record of a call that returns ret with its ctx as c
IoCall(cmd, ret, c) ==
    [cmd |-> cmd, ret |-> ret, ctx |-> c, stats |-> NoStats, handle |-> 0,
     size |-> 0, status |-> "none"]

InitIoctl ==
    /\ adev = [mem_used |-> 0, coherent |-> {}]
    /\ ioc = IoCall("none", "none", FreshCtx)
    /\ hist = [jobs |-> 0, bytes |-> 0, before |-> 0, known |-> FALSE,
               read_jobs |-> 0, read_bytes |-> 0,
               prev_jobs |-> 0, prev_bytes |-> 0]

(***************************************************************************)
(* The userspace library, libaidrv.c: the values its calls start from.     *)
(***************************************************************************)
\* no struct ai_buffer_s has been allocated
NoBuffer ==
    [state |-> "none", pc |-> "idle", handle |-> 0, size |-> 0,
     mapped_ptr |-> NULL, is_mapped |-> 0, vma |-> FALSE, was_mapped |-> FALSE,
     charged |-> 0]

\* no struct ai_job_s has been allocated
NoJob ==
    [state |-> "none", complete |-> 0, result |-> "AI_SUCCESS",
     final |-> "AI_SUCCESS", looks |-> 0]

\* the record of a library call fn that returns ret and stores out
LibCall(fn, ret, out) ==
    [fn |-> fn, ret |-> ret, out |-> out, event |-> libcall.event,
     pre |-> buffer.mapped_ptr]

InitLib ==
    /\ g_initialized = 0
    /\ devnode = TRUE
    /\ device = "none"
    /\ buffer = NoBuffer
    /\ job = NoJob
    /\ libcall = [fn |-> "none", ret |-> "none", out |-> 0, event |-> "none",
                  pre |-> NULL]

\* no caller is inside ai_ioctl_alloc_memory or ai_ioctl_free_memory
NoCaller == [pc |-> "idle", ret |-> "none", size |-> 0, mem |-> NULL,
             reg |-> 0, calls |-> 0]

InitExt ==
    /\ InitIoctl /\ InitLib
    /\ mm = [t \in Threads |-> NoCaller]
    /\ delivered = <<>>

(***************************************************************************)
(* Initial state: ai_accel_init.                                           *)
(***************************************************************************)
Init ==
    /\ lock = 0
    /\ buffer_idr = EmptyIdr
    /\ model_idr = EmptyIdr
    /\ fence_counter = 0
    /\ total_inferences = U64Zero
    /\ total_bytes_processed = U64Zero
    /\ heap = {}
    /\ pc = [t \in Threads |-> "idle"]
    /\ loc = [t \in Threads |-> NoLoc]
    /\ live = [k \in Handles |-> 0]
    /\ freed = {}
    /\ channel_bitmap = {}
    /\ dma_channels = [i \in Channels |-> FALSE]
    /\ xfers = [x \in {IdleXfer} |-> MaxTransfers]
    /\ init_ret = "none"
    /\ pinned = 0
    /\ dma_maps = 0
    /\ ubuf = IdleBuf
    /\ channel_lock = 0
    /\ leaks = 0
    /\ InitExt
    /\ fence_log = <<>>

\* the handler returns r to its caller, with the handle hv and the fence f it
\* copied out (0 when it copied nothing out)
Return(t, r, hv, f) ==
    /\ pc' = [pc EXCEPT ![t] = "ret"]
    /\ loc' = [loc EXCEPT ![t] =
                  [NoLoc EXCEPT !.ret = r, !.h = hv, !.fence = f]]
    /\ UNCHANGED dma_vars

Goto(t, label, l) ==
    /\ pc' = [pc EXCEPT ![t] = label]
    /\ loc' = [loc EXCEPT ![t] = l]
    /\ UNCHANGED dma_vars

\* the allocated records after a step that leaves hp allocated
Heap(hp) ==
    /\ heap' = hp \cap Referenced(buffer_idr', model_idr', loc')
    /\ leaks' = leaks

\* the same after a step that ends ai_ioctl_load_model; a record the step
\* leaves allocated with nothing referring to it is lost
LoadHeap(hp) ==
    /\ heap' = hp \cap Referenced(buffer_idr', model_idr', loc')
    /\ leaks' = IF hp \subseteq Referenced(buffer_idr', model_idr', loc')
                THEN leaks ELSE Bump(leaks)

\* a thread that is not inside a handler may enter one
CanCall(t) == pc[t] \in {"idle", "ret"}

counters == <<fence_counter, total_inferences, total_bytes_processed, fence_log>>

(***************************************************************************)
(* ai_ioctl_alloc                                                          *)
(***************************************************************************)
\* faulty variant: the upper limit is not checked
SizeOkNoMax(size) == size # 0

\* the size check of ai_ioctl_alloc / ai_ioctl_load_model
SizeOk(size) == ~(size = 0 \/ size > max_alloc_size)

\* copy_from_user fails, the size check fails, or kzalloc/vzalloc fails
AllocReject(t) ==
    /\ CanCall(t)
    /\ \/ Return(t, "-EFAULT", 0, U64Zero)
       \/ \E size \in AllocSizes :
            /\ ~SizeOk(size)
            /\ pc' = [pc EXCEPT ![t] = "ret"]
            /\ loc' = [loc EXCEPT ![t] =
                          [NoLoc EXCEPT !.ret = "-EINVAL", !.size = size]]
            /\ UNCHANGED dma_vars
       \/ \E size \in AllocSizes :
            /\ SizeOk(size)
            /\ pc' = [pc EXCEPT ![t] = "ret"]
            /\ loc' = [loc EXCEPT ![t] =
                          [NoLoc EXCEPT !.ret = "-ENOMEM"]]
            /\ UNCHANGED dma_vars
    /\ UNCHANGED <<leaks, heap, lock, buffer_idr, model_idr, live, freed, counters>>

\* copy_from_user, the size check, kzalloc and vzalloc succeed; mutex_lock;
\* handle = idr_alloc(&dev->buffer_idr, buf, 1, 0, GFP_KERNEL).
\* wr tells whether the later copy_to_user of the result will succeed.
AllocRegister(t) ==
    /\ CanCall(t)
    /\ lock = 0
    /\ lock' = t
    /\ \E size \in AllocSizes, wr \in BOOLEAN :
         /\ SizeOk(size)
         /\ \/ /\ IdrFree(buffer_idr) # {}
               /\ LET id == IdrAlloc(buffer_idr) IN
                    /\ buffer_idr' = IdrInsert(buffer_idr, id, NewPtr)
                    /\ live' = IF wr THEN [live EXCEPT ![id] = Bump(@)] ELSE live
                    /\ freed' = freed \ {id}
                    /\ Goto(t, "alloc_unlock",
                            [NoLoc EXCEPT !.size = size, !.p = NewPtr,
                                          !.wr = wr, !.h = id])
            \/ /\ Goto(t, "alloc_unlock",
                       [NoLoc EXCEPT !.size = size, !.p = NewPtr,
                                     !.wr = wr, !.h = -1])
               /\ UNCHANGED <<buffer_idr, live, freed>>
    /\ UNCHANGED <<model_idr, counters>>
    /\ Heap(heap \cup {NewPtr})

\* mutex_unlock; the handle < 0 unwind; copy_to_user of the result
AllocUnlock(t) ==
    /\ pc[t] = "alloc_unlock"
    /\ lock' = 0
    /\ UNCHANGED <<buffer_idr, model_idr, live, freed, counters>>
    /\ IF loc[t].h < 0
       THEN /\ Return(t, "-ENOMEM", 0, U64Zero)
            /\ Heap(heap \ {loc[t].p})
       ELSE IF loc[t].wr
       THEN /\ Return(t, "0", loc[t].h, U64Zero)
            /\ Heap(heap)
       ELSE /\ Goto(t, "alloc_unwind", loc[t])
            /\ Heap(heap)

\* copy_to_user failed: mutex_lock; idr_remove(&dev->buffer_idr, handle)
AllocUnwind(t) ==
    /\ pc[t] = "alloc_unwind"
    /\ lock = 0
    /\ lock' = t
    /\ buffer_idr' = IdrRemove(buffer_idr, loc[t].h)
    /\ Goto(t, "alloc_unwind_unlock", loc[t])
    /\ UNCHANGED <<model_idr, live, freed, counters>>
    /\ Heap(heap)

\* mutex_unlock; vfree; kfree; return -EFAULT
\* faulty variant: the error path returns with the mutex held
ErrorPathHolds(t) == t

\* mutex_unlock(&dev->lock) on the error path that removed the handle again
ErrorPathUnlock(t) == 0

AllocUnwindUnlock(t) ==
    /\ pc[t] = "alloc_unwind_unlock"
    /\ lock' = ErrorPathUnlock(t)
    /\ Return(t, "-EFAULT", 0, U64Zero)
    /\ UNCHANGED <<buffer_idr, model_idr, live, freed, counters>>
    /\ Heap(heap \ {loc[t].p})

(***************************************************************************)
(* ai_ioctl_free                                                           *)
(***************************************************************************)
\* copy_from_user of the request fails
FreeFault(t) ==
    /\ CanCall(t)
    /\ Return(t, "-EFAULT", 0, U64Zero)
    /\ UNCHANGED <<leaks, heap, lock, buffer_idr, model_idr, live, freed, counters>>

\* faulty variant: removes an entry without looking the handle up
FreeLookupBlind(idr, id) ==
    [found |-> IF DOMAIN idr = {} THEN NULL
               ELSE idr[CHOOSE k \in DOMAIN idr : TRUE],
     idr |-> IF DOMAIN idr = {} THEN idr
             ELSE IdrRemove(idr, CHOOSE k \in DOMAIN idr : TRUE)]

\* buf = idr_find(&dev->buffer_idr, req.handle); if (buf) idr_remove(...)
FreeLookup(idr, id) ==
    [found |-> IdrFind(idr, id),
     idr |-> IF IdrFind(idr, id) # NULL THEN IdrRemove(idr, id) ELSE idr]

\* copy_from_user; mutex_lock; the lookup/removal under the mutex
FreeLocked(t) ==
    /\ CanCall(t)
    /\ lock = 0
    /\ lock' = t
    /\ \E hv \in UserHandles :
         LET r == FreeLookup(buffer_idr, hv) IN
           /\ buffer_idr' = r.idr
           /\ Goto(t, "free_unlock", [NoLoc EXCEPT !.h = hv, !.p = r.found])
           /\ live' = IF r.found # NULL /\ hv \in Handles /\ live[hv] > 0
                      THEN [live EXCEPT ![hv] = @ - 1] ELSE live
           /\ freed' = IF r.found # NULL THEN freed \cup {hv} ELSE freed
    /\ UNCHANGED <<model_idr, counters>>
    /\ Heap(heap)

\* mutex_unlock; if (!buf) return -EINVAL; vfree; kfree; return 0
FreeUnlock(t) ==
    /\ pc[t] = "free_unlock"
    /\ lock' = 0
    /\ UNCHANGED <<buffer_idr, model_idr, live, freed, counters>>
    /\ IF loc[t].p = NULL
       THEN /\ Return(t, "-EINVAL", 0, U64Zero)
            /\ Heap(heap)
       ELSE /\ Return(t, "0", 0, U64Zero)
            /\ Heap(heap \ {loc[t].p})

(***************************************************************************)
(* ai_ioctl_load_model                                                     *)
(***************************************************************************)
\* copy_from_user fails, the size check fails, kzalloc/vmalloc fails, or the
\* copy_from_user of the model data fails
LoadReject(t) ==
    /\ CanCall(t)
    /\ \/ Return(t, "-EFAULT", 0, U64Zero)
       \/ \E size \in AllocSizes :
            ~SizeOk(size) /\ Return(t, "-EINVAL", 0, U64Zero)
       \/ \E size \in AllocSizes :
            SizeOk(size) /\ Return(t, "-ENOMEM", 0, U64Zero)
    /\ UNCHANGED <<leaks, heap, lock, buffer_idr, model_idr, live, freed, counters>>

\* the copies, the size check and the allocations succeed; mutex_lock;
\* handle = idr_alloc(&dev->model_idr, model, 1, 0, GFP_KERNEL)
LoadRegister(t) ==
    /\ CanCall(t)
    /\ lock = 0
    /\ lock' = t
    /\ \E size \in AllocSizes, wr \in BOOLEAN :
         /\ SizeOk(size)
         /\ \/ /\ IdrFree(model_idr) # {}
               /\ LET id == IdrAlloc(model_idr) IN
                    /\ model_idr' = IdrInsert(model_idr, id, NewPtr)
                    /\ Goto(t, "load_unlock",
                            [NoLoc EXCEPT !.p = NewPtr, !.wr = wr, !.h = id])
            \/ /\ Goto(t, "load_unlock",
                       [NoLoc EXCEPT !.p = NewPtr, !.wr = wr, !.h = -1])
               /\ UNCHANGED model_idr
    /\ UNCHANGED <<buffer_idr, live, freed, counters>>
    /\ Heap(heap \cup {NewPtr})

\* mutex_unlock; the handle < 0 unwind; copy_to_user of the result
LoadUnlock(t) ==
    /\ pc[t] = "load_unlock"
    /\ lock' = 0
    /\ UNCHANGED <<buffer_idr, model_idr, live, freed, counters>>
    /\ IF loc[t].h < 0
       THEN /\ Return(t, "-ENOMEM", 0, U64Zero)
            /\ LoadHeap(heap \ {loc[t].p})
       ELSE IF loc[t].wr
       THEN /\ Return(t, "0", loc[t].h, U64Zero)
            /\ LoadHeap(heap)
       ELSE /\ Goto(t, "load_unwind", loc[t])
            /\ LoadHeap(heap)

\* faulty variant: the unwind leaves the handle in the table
UnwindRemoveNot(idr, h) == idr

\* idr_remove(&dev->model_idr, handle) of the copy_to_user unwind
UnwindRemove(idr, h) == IdrRemove(idr, h)

\* copy_to_user failed: mutex_lock; idr_remove(&dev->model_idr, handle)
LoadUnwind(t) ==
    /\ pc[t] = "load_unwind"
    /\ lock = 0
    /\ lock' = t
    /\ model_idr' = UnwindRemove(model_idr, loc[t].h)
    /\ Goto(t, "load_unwind_unlock", loc[t])
    /\ UNCHANGED <<buffer_idr, live, freed, counters>>
    /\ Heap(heap)

\* mutex_unlock; vfree; kfree; return -EFAULT
LoadUnwindUnlock(t) ==
    /\ pc[t] = "load_unwind_unlock"
    /\ lock' = ErrorPathUnlock(t)
    /\ Return(t, "-EFAULT", 0, U64Zero)
    /\ UNCHANGED <<buffer_idr, model_idr, live, freed, counters>>
    /\ LoadHeap(heap \ {loc[t].p})

(***************************************************************************)
(* ai_ioctl_submit                                                         *)
(***************************************************************************)
\* copy_from_user of the request fails
SubmitFault(t) ==
    /\ CanCall(t)
    /\ Return(t, "-EFAULT", 0, U64Zero)
    /\ UNCHANGED <<leaks, heap, lock, buffer_idr, model_idr, live, freed, counters>>

\* faulty variant: the output handle is not looked up
ResolvesNoOutput(midr, bidr, m, i, o) ==
    ~(IdrFind(midr, m) = NULL \/ IdrFind(bidr, i) = NULL)

\* faulty variant: the three handles are looked up in one table
ResolvesOneTable(midr, bidr, m, i, o) ==
    ~(IdrFind(bidr, m) = NULL \/ IdrFind(bidr, i) = NULL
                              \/ IdrFind(bidr, o) = NULL)

\* the handle validation of ai_ioctl_submit
Resolves(midr, bidr, m, i, o) ==
    ~(IdrFind(midr, m) = NULL \/ IdrFind(bidr, i) = NULL
                              \/ IdrFind(bidr, o) = NULL)

\* bound of the model: at most MaxSubmits fences are issued
SubmitBudget ==
    Len(fence_log)
      + Cardinality({u \in Threads : pc[u] \in {"submit_unlock", "submit_fence"}})
      < MaxSubmits

\* copy_from_user; mutex_lock; the three idr_find calls
SubmitValidate(t) ==
    /\ CanCall(t)
    /\ SubmitBudget
    /\ lock = 0
    /\ lock' = t
    /\ \E m \in UserHandles, i \in UserHandles, o \in UserHandles :
         Goto(t, "submit_unlock",
              [NoLoc EXCEPT !.m = m, !.i = i, !.o = o,
                            !.valid = Resolves(model_idr, buffer_idr, m, i, o)])
    /\ UNCHANGED <<buffer_idr, model_idr, live, freed, counters>>
    /\ Heap(heap)

\* faulty variant: the mutex stays with the thread
MutexKept(t) == t

\* mutex_unlock(&dev->lock) by its holder t
MutexUnlock(t) == 0

\* mutex_unlock; return -EINVAL when a handle did not resolve.  The request
\* (req) with its three handles stays in the handler's frame.
SubmitUnlock(t) ==
    /\ pc[t] = "submit_unlock"
    /\ lock' = MutexUnlock(t)
    /\ IF loc[t].valid
       THEN Goto(t, "submit_fence", [loc[t] EXCEPT !.valid = FALSE])
       ELSE Return(t, "-EINVAL", 0, U64Zero)
    /\ UNCHANGED <<leaks, heap, buffer_idr, model_idr, live, freed, counters>>

\* faulty variant: reads the counter without advancing it
AtomicIncReturnStale(c) == c

\* atomic_inc_return on a 32-bit atomic_t (wraps in two's complement)
AtomicIncReturn(c) == IF c = INT_MAX THEN INT_MIN ELSE c + 1

\* fence = atomic_inc_return(&dev->fence_counter), widened to u64
SubmitFence(t) ==
    /\ pc[t] = "submit_fence"
    /\ fence_counter' = AtomicIncReturn(fence_counter)
    /\ Goto(t, "submit_exec", [loc[t] EXCEPT !.fence = ToU64(fence_counter')])
    /\ fence_log' = Append(fence_log, [t |-> t, fence |-> ToU64(fence_counter')])
    /\ UNCHANGED <<leaks, heap, lock, buffer_idr, model_idr, total_inferences,
                   total_bytes_processed, live, freed>>

\* usleep_range returns; atomic64_inc(&dev->total_inferences)
SubmitExec(t) ==
    /\ pc[t] = "submit_exec"
    /\ total_inferences' = U64Add(total_inferences, 1)
    /\ Goto(t, "submit_bytes", loc[t])
    /\ UNCHANGED <<leaks, heap, lock, buffer_idr, model_idr, fence_counter,
                   total_bytes_processed, live, freed, fence_log>>

\* atomic64_add(req.input_size + req.output_size, ...); req.fence = fence;
\* copy_to_user.  The two sizes and the writability of the caller's buffer are
\* read only here, so they are drawn here.
SubmitFinish(t) ==
    /\ pc[t] = "submit_bytes"
    /\ \E isz \in IoSizes, osz \in IoSizes, w \in BOOLEAN :
         /\ total_bytes_processed' = U64Add(total_bytes_processed, isz + osz)
         /\ IF w
            THEN Return(t, "0", 0, loc[t].fence)
            ELSE Return(t, "-EFAULT", 0, U64Zero)
    /\ UNCHANGED <<leaks, heap, lock, buffer_idr, model_idr, fence_counter,
                   total_inferences, live, freed, fence_log>>

(***************************************************************************)
(* The driver under concurrent callers.                                    *)
(***************************************************************************)
Next ==
    \E t \in Threads :
       \/ AllocReject(t) \/ AllocRegister(t) \/ AllocUnlock(t)
       \/ AllocUnwind(t) \/ AllocUnwindUnlock(t)
       \/ FreeFault(t) \/ FreeLocked(t) \/ FreeUnlock(t)
       \/ LoadReject(t) \/ LoadRegister(t) \/ LoadUnlock(t)
       \/ LoadUnwind(t) \/ LoadUnwindUnlock(t)
       \/ SubmitFault(t) \/ SubmitValidate(t) \/ SubmitUnlock(t)
       \/ SubmitFence(t) \/ SubmitExec(t) \/ SubmitFinish(t)

Spec == Init /\ [][Next]_vars

(***************************************************************************)
(* The device late in its life: 2^31 - 1 or 2^32 - 1 submits have          *)
(* completed, each for one input and one output of the sizes in IoSizes,   *)
(* against the one model and the one buffer that are registered.  The      *)
(* counters hold what those submits left in them, and fence_log holds the   *)
(* latest fence issued.                                                     *)
(***************************************************************************)
InitWrap ==
    /\ lock = 0
    /\ buffer_idr = IdrInsert(EmptyIdr, 1, 1)
    /\ model_idr = IdrInsert(EmptyIdr, 1, 2)
    /\ heap = {1, 2}
    /\ fence_counter \in {INT_MAX, -1}
    /\ total_inferences = ZeroExt32(fence_counter)
    /\ \E sz \in IoSizes :
         total_bytes_processed = U64Times(ZeroExt32(fence_counter), sz + sz)
    /\ pc = [t \in Threads |-> "idle"]
    /\ loc = [t \in Threads |-> NoLoc]
    /\ live = [k \in Handles |-> IF k = 1 THEN 1 ELSE 0]
    /\ freed = {}
    /\ channel_bitmap = {}
    /\ dma_channels = [i \in Channels |-> FALSE]
    /\ xfers = [x \in {IdleXfer} |-> MaxTransfers]
    /\ init_ret = "none"
    /\ pinned = 0
    /\ dma_maps = 0
    /\ ubuf = IdleBuf
    /\ channel_lock = 0
    /\ leaks = 0
    /\ InitExt
    /\ fence_log = <<[t |-> 1, fence |-> ToU64(fence_counter)]>>

\* the callers allocate, free and submit; the model table is full and no
\* handler removes a model, so ai_ioctl_load_model is left out
NextWrap ==
    \E t \in Threads :
       \/ AllocReject(t) \/ AllocRegister(t) \/ AllocUnlock(t)
       \/ AllocUnwind(t) \/ AllocUnwindUnlock(t)
       \/ FreeFault(t) \/ FreeLocked(t) \/ FreeUnlock(t)
       \/ SubmitFault(t) \/ SubmitValidate(t) \/ SubmitUnlock(t)
       \/ SubmitFence(t) \/ SubmitExec(t) \/ SubmitFinish(t)

SpecWrap == InitWrap /\ [][NextWrap]_vars


(***************************************************************************)
(* ai_dma.c: the channel pool and the transfer routines.  The callers are   *)
(* interchangeable, so their contexts are kept as a bag.  channel_lock is   *)
(* held only inside the steps that read or write the pool.                  *)
(***************************************************************************)
One(x) == [e \in {x} |-> 1]

\* the bag b with one copy of x replaced by y
Swap(b, x, y) == (b (-) One(x)) (+) One(y)

RECURSIVE Copies(_, _)
Copies(b, S) ==
    IF S = {} THEN 0
    ELSE LET e == CHOOSE e \in S : TRUE IN b[e] + Copies(b, S \ {e})

InFlightPcs == {"sync_start", "sync_wait", "sync_term", "async_start", "async_flight"}

\* the contexts of the calls that hold channel c, and of all that hold one
InFlightOn(c) == {x \in DOMAIN xfers : x.pc \in InFlightPcs /\ x.chan = c}
InFlight == {x \in DOMAIN xfers : x.pc \in InFlightPcs}

\* ai_dma_init: dma_request_channel per slot, set_bit for each one obtained;
\* if (channel_bitmap == 0) ret = -ENODEV
ai_dma_init ==
    /\ \A i \in Channels : ~dma_channels[i]
    /\ \E S \in ObtainedSets :
         /\ dma_channels' = [i \in Channels |-> i \in S]
         /\ channel_bitmap' = S
         /\ init_ret' = IF S = {} THEN "-ENODEV" ELSE "0"
    /\ UNCHANGED <<xfers, accel_vars, map_vars, channel_lock, ext_vars>>

\* the body of ai_dma_exit: dma_release_channel of every slot that is not
\* NULL, the slot set to NULL, the bitmap cleared
ReleaseChannels ==
    /\ dma_channels' = [i \in Channels |-> FALSE]
    /\ channel_bitmap' = {}

\* ai_dma_exit, called when no transfer is in progress
ai_dma_exit ==
    /\ InFlight = {}
    /\ \E i \in Channels : dma_channels[i]
    /\ ReleaseChannels
    /\ UNCHANGED <<xfers, accel_vars, side_vars>>

\* faulty variant: the search takes slot 0 without testing it
FirstChannelBlind(bm, chans) == 0

\* the channel search of the transfer routines: the first i with bit i set
\* and dma_channels[i] not NULL; -1 stands for chan == NULL
FirstChannel(bm, chans) ==
    LET ok == {i \in Channels : i \in bm /\ chans[i]}
    IN  IF ok = {} THEN -1 ELSE CHOOSE i \in ok : \A j \in ok : i <= j

\* the call of context x returns code
Ret(x, code) ==
    [x EXCEPT !.pc = "ret", !.ret = code, !.chan = -1, !.size = 0,
              !.entry = {},
              !.pool_kept = (channel_bitmap' = x.entry)]

\* entry of a transfer routine with the argument size: the channel search
\* under channel_lock; if (!chan) return -ENODEV
Acquire(x, label) ==
    /\ UNCHANGED <<channel_bitmap, dma_channels, accel_vars, side_vars>>
    /\ x.pc \in {"idle", "ret"}
    /\ \E size \in XferSizes :
         LET c == FirstChannel(channel_bitmap, dma_channels) IN
           xfers' = Swap(xfers, x,
                         IF c = -1
                         THEN [IdleXfer EXCEPT !.pc = "ret", !.ret = "-ENODEV"]
                         ELSE [IdleXfer EXCEPT !.pc = label, !.chan = c,
                                               !.size = size,
                                               !.entry = channel_bitmap])

SyncAcquire == \E x \in DOMAIN xfers : Acquire(x, "sync_start")

\* init_completion; xfer.status = -EINPROGRESS; dmaengine_prep_dma_memcpy;
\* dmaengine_submit; dma_async_issue_pending
SyncStart ==
    /\ UNCHANGED <<channel_bitmap, dma_channels, accel_vars, side_vars>>
    /\ \E x \in DOMAIN xfers :
         /\ x.pc = "sync_start"
         /\ LET x0 == [x EXCEPT !.status = "-EINPROGRESS", !.size = 0] IN
              \/ xfers' = Swap(xfers, x, Ret(x0, "-ENOMEM"))
              \/ xfers' = Swap(xfers, x, Ret(x0, "submit_error"))
              \/ xfers' = Swap(xfers, x,
                               [x0 EXCEPT !.pc = "sync_wait", !.op = "pending"])

\* faulty variant: the callback signals the waiter without recording the outcome
AfterCallbackSilent(x) ==
    [x EXCEPT !.op = "completed", !.done = @ + 1, !.signals = @ + 1]

\* ai_dma_callback: end_time = ktime_get(); status = 0; complete(&xfer->done)
AfterCallback(x) ==
    [x EXCEPT !.op = "completed", !.stamped = TRUE, !.status = "0",
              !.done = @ + 1, !.signals = @ + 1]

\* the engine finishes a pending descriptor and runs its callback:
\* ai_dma_callback for a synchronous transfer, the caller's own for an
\* asynchronous one, whose caller left ai_dma_transfer_async long ago and
\* keeps in op what became of its last descriptor
Complete ==
    /\ \E x \in DOMAIN xfers :
         /\ x.op = "pending"
         /\ xfers' = Swap(xfers, x,
                          IF x.pc = "async_flight"
                          THEN [IdleXfer EXCEPT !.op = "completed"]
                          ELSE AfterCallback(x))
    /\ UNCHANGED <<channel_bitmap, dma_channels, accel_vars, side_vars>>

\* wait_for_completion_timeout: consumes a completion and returns
\* xfer.status, or times out with none signalled
SyncWait ==
    /\ UNCHANGED <<channel_bitmap, dma_channels, accel_vars, side_vars>>
    /\ \E x \in DOMAIN xfers :
         /\ x.pc = "sync_wait"
         /\ IF x.done > 0
            THEN xfers' = Swap(xfers, x,
                               Ret([x EXCEPT !.done = @ - 1, !.consumed = TRUE],
                                   x.status))
            ELSE xfers' = Swap(xfers, x, [x EXCEPT !.pc = "sync_term"])

\* faulty variant: the channel is left running
KillNothing(e, c) == e

\* what dmaengine_terminate_sync(chan c) does to context e: a descriptor
\* pending on c is dropped and its callback will not run
KillOp(e, c) ==
    IF e.chan = c /\ e.op = "pending"
    THEN IF e.pc = "async_flight"
         THEN [IdleXfer EXCEPT !.op = "killed"]
         ELSE [e EXCEPT !.op = "killed"]
    ELSE e

\* dmaengine_terminate_sync(chan): every descriptor on the channel is stopped
TerminateSync(b, c) ==
    [y \in {KillOp(e, c) : e \in DOMAIN b} |->
        Copies(b, {e \in DOMAIN b : KillOp(e, c) = y})]

\* the wait timed out: dmaengine_terminate_sync(chan); return -ETIMEDOUT
SyncTimeout ==
    /\ UNCHANGED <<channel_bitmap, dma_channels, accel_vars, side_vars>>
    /\ \E x \in DOMAIN xfers :
         /\ x.pc = "sync_term"
         /\ xfers' = Swap(TerminateSync(xfers, x.chan), KillOp(x, x.chan),
                          Ret(KillOp(x, x.chan), "-ETIMEDOUT"))

AsyncAcquire == \E x \in DOMAIN xfers : Acquire(x, "async_start")

\* dmaengine_prep_dma_memcpy; dmaengine_submit; dma_async_issue_pending when
\* the submit did not fail; return cookie
AsyncStart ==
    /\ UNCHANGED <<channel_bitmap, dma_channels, accel_vars, side_vars>>
    /\ \E x \in DOMAIN xfers :
         /\ x.pc = "async_start"
         /\ \/ xfers' = Swap(xfers, x, Ret(x, "-ENOMEM"))
            \/ xfers' = Swap(xfers, x, Ret(x, "submit_error"))
            \/ xfers' = Swap(xfers, x,
                             [x EXCEPT !.pc = "async_flight", !.size = 0,
                                       !.op = "pending"])

NextDma ==
    \/ ai_dma_init \/ ai_dma_exit
    \/ SyncAcquire \/ SyncStart \/ SyncWait \/ SyncTimeout
    \/ AsyncAcquire \/ AsyncStart
    \/ Complete

SpecDma == Init /\ [][NextDma]_vars

(***************************************************************************)
(* The locks beside the blocking steps.  Here the channel search of        *)
(* ai_dma_transfer_sync is followed in two steps, with channel_lock held   *)
(* between them, beside callers of alloc, free and submit.                 *)
(***************************************************************************)
\* spin_lock(&channel_lock); the search loop
SyncSearch ==
    /\ channel_lock = 0
    /\ channel_lock' = 1
    /\ \E x \in DOMAIN xfers, size \in XferSizes :
         /\ x.pc \in {"idle", "ret"}
         /\ xfers' = Swap(xfers, x,
                          [IdleXfer EXCEPT
                              !.pc = "sync_search", !.size = size,
                              !.chan = FirstChannel(channel_bitmap, dma_channels),
                              !.entry = channel_bitmap])
    /\ UNCHANGED <<channel_bitmap, dma_channels, init_ret, map_vars,
                   ext_vars, accel_vars>>

\* spin_unlock(&channel_lock); if (!chan) return -ENODEV
SyncSearchUnlock ==
    /\ UNCHANGED <<channel_bitmap, dma_channels, init_ret, map_vars,
                   ext_vars, accel_vars>>
    /\ channel_lock' = 0
    /\ \E x \in DOMAIN xfers :
         /\ x.pc = "sync_search"
         /\ xfers' = Swap(xfers, x,
                          IF x.chan = -1
                          THEN [IdleXfer EXCEPT !.pc = "ret", !.ret = "-ENODEV"]
                          ELSE [x EXCEPT !.pc = "sync_start"])

\* one buffer and one model are registered and the pool holds all channels
InitLock ==
    /\ lock = 0
    /\ buffer_idr = IdrInsert(EmptyIdr, 1, 1)
    /\ model_idr = IdrInsert(EmptyIdr, 1, 2)
    /\ heap = {1, 2}
    /\ fence_counter = 0
    /\ total_inferences = U64Zero
    /\ total_bytes_processed = U64Zero
    /\ pc = [t \in Threads |-> "idle"]
    /\ loc = [t \in Threads |-> NoLoc]
    /\ live = [k \in Handles |-> IF k = 1 THEN 1 ELSE 0]
    /\ freed = {}
    /\ channel_bitmap = Channels
    /\ dma_channels = [i \in Channels |-> TRUE]
    /\ xfers = [x \in {IdleXfer} |-> LockTransfers]
    /\ init_ret = "0"
    /\ pinned = 0
    /\ dma_maps = 0
    /\ ubuf = IdleBuf
    /\ channel_lock = 0
    /\ leaks = 0
    /\ InitExt
    /\ fence_log = <<>>

NextLock ==
    \/ \E t \in Threads :
          \/ AllocRegister(t) \/ AllocUnlock(t)
          \/ AllocUnwind(t) \/ AllocUnwindUnlock(t)
          \/ FreeLocked(t) \/ FreeUnlock(t)
          \/ SubmitValidate(t) \/ SubmitUnlock(t)
          \/ SubmitFence(t) \/ SubmitExec(t) \/ SubmitFinish(t)
    \/ SyncSearch \/ SyncSearchUnlock
    \/ SyncStart \/ SyncWait \/ SyncTimeout \/ Complete

SpecLock == InitLock /\ [][NextLock]_vars

(***************************************************************************)
(* The callers under fair scheduling.  One thread calls alloc and          *)
(* load_model, the other free and submit, a third caller runs              *)
(* ai_dma_transfer_sync; the three run side by side.  A thread that is     *)
(* inside a handler goes on running (weak fairness of its steps), a        *)
(* thread that waits in mutex_lock gets the mutex when it is released      *)
(* again and again (the kernel's mutex queues its waiters: strong          *)
(* fairness), and wait_for_completion_timeout returns after its timeout.   *)
(***************************************************************************)
Allocators == {1}
Submitters == {2}

\* the buffer table holds one buffer, the model table is empty and the pool
\* holds all channels
InitFair ==
    /\ lock = 0
    /\ buffer_idr = IdrInsert(EmptyIdr, 1, 1)
    /\ model_idr = EmptyIdr
    /\ heap = {1}
    /\ fence_counter = 0
    /\ total_inferences = U64Zero
    /\ total_bytes_processed = U64Zero
    /\ pc = [t \in Threads |-> "idle"]
    /\ loc = [t \in Threads |-> NoLoc]
    /\ live = [k \in Handles |-> IF k = 1 THEN 1 ELSE 0]
    /\ freed = {}
    /\ channel_bitmap = Channels
    /\ dma_channels = [i \in Channels |-> TRUE]
    /\ xfers = [x \in {IdleXfer} |-> LockTransfers]
    /\ init_ret = "0"
    /\ pinned = 0
    /\ dma_maps = 0
    /\ ubuf = IdleBuf
    /\ channel_lock = 0
    /\ leaks = 0
    /\ InitExt
    /\ fence_log = <<>>

NextFair ==
    \/ \E t \in Allocators :
          \/ AllocRegister(t) \/ AllocUnlock(t)
          \/ AllocUnwind(t) \/ AllocUnwindUnlock(t)
          \/ LoadRegister(t) \/ LoadUnlock(t)
          \/ LoadUnwind(t) \/ LoadUnwindUnlock(t)
    \/ \E t \in Submitters :
          \/ FreeLocked(t) \/ FreeUnlock(t)
          \/ SubmitValidate(t) \/ SubmitUnlock(t)
          \/ SubmitFence(t) \/ SubmitExec(t) \/ SubmitFinish(t)
    \/ SyncSearch \/ SyncSearchUnlock
    \/ SyncStart \/ SyncWait \/ SyncTimeout \/ Complete

\* a step of t inside a handler that waits for nothing
Runs(t) ==
    \/ AllocUnlock(t) \/ AllocUnwindUnlock(t)
    \/ LoadUnlock(t) \/ LoadUnwindUnlock(t)
    \/ FreeUnlock(t)
    \/ SubmitUnlock(t) \/ SubmitFence(t) \/ SubmitExec(t) \/ SubmitFinish(t)

\* mutex_lock inside a handler, after its first critical section
Relocks(t) == AllocUnwind(t) \/ LoadUnwind(t)

\* a step of the transfer caller inside ai_dma_transfer_sync
Transfers == SyncSearchUnlock \/ SyncStart \/ SyncWait \/ SyncTimeout

FairSchedule ==
    /\ \A t \in Threads : WF_vars(Runs(t)) /\ SF_vars(Relocks(t))
    /\ WF_vars(Transfers)

SpecFair == InitFair /\ [][NextFair]_vars /\ FairSchedule

(***************************************************************************)
(* ai_ioctl.c: ai_accel_ioctl and its handlers.  Every action is one call  *)
(* of ai_accel_ioctl from its entry to its return; ioc is the call at its  *)
(* return, with the ctx that dies with it.                                 *)
(***************************************************************************)
mem_size == MemPages * PAGE_SIZE
DmaAddrs == 1..MaxBlocks
MemSizes == {0, 1, PAGE_SIZE, PAGE_SIZE + 1, 65 * 1024 * 1024}
FreeSizes == {0, PAGE_SIZE, 2 * PAGE_SIZE}
\* sizes, in bytes, of the buffers whose contents are followed
InferLens == {0, 1, 2}
Bytes == {0, 1}
Min2(a, b) == IF a < b THEN a ELSE b
InferSizes == {0, PAGE_SIZE, 2 * PAGE_SIZE, 17 * 1024 * 1024}
Fences == 0..MaxFence

PAGE_ALIGN(n) == ((n + PAGE_SIZE - 1) \div PAGE_SIZE) * PAGE_SIZE

\* what every call leaves in the history: mem_used at its entry and whether
\* the block it names was allocated and not released
Entered(known) == [hist EXCEPT !.before = adev.mem_used, !.known = known]

\* a bad magic number or an unknown command: -ENOTTY; access_ok fails: -EFAULT
IoctlRejected ==
    /\ \E r \in {"-ENOTTY", "-EFAULT"} : ioc' = IoCall("none", r, FreshCtx)
    /\ hist' = Entered(FALSE)
    /\ UNCHANGED <<adev, kernel_vars, lib_vars>>

\* AI_ACCEL_IOC_GET_INFO
IoctlGetInfo ==
    /\ \E r \in {"0", "-EFAULT"} : ioc' = IoCall("GET_INFO", r, FreshCtx)
    /\ hist' = Entered(FALSE)
    /\ UNCHANGED <<adev, kernel_vars, lib_vars>>

\* AI_ACCEL_IOC_SET_POWER
IoctlSetPower ==
    /\ \E r \in {"0", "-EINVAL"} : ioc' = IoCall("SET_POWER", r, FreshCtx)
    /\ hist' = Entered(FALSE)
    /\ UNCHANGED <<adev, kernel_vars, lib_vars>>

\* ai_ioctl_alloc_memory behind ai_accel_ioctl; mem is what
\* dma_alloc_coherent returns and fault the copy that fails
AllocMemory(size, fault, mem) ==
    /\ hist' = Entered(FALSE)
    /\ LET asz == PAGE_ALIGN(size)
           fail(r) == /\ ioc' = IoCall("ALLOC_MEM", r, FreshCtx)
                      /\ adev' = adev
       IN  IF fault = "in" THEN fail("-EFAULT")
           ELSE IF size = 0 \/ size > 64 * 1024 * 1024 THEN fail("-EINVAL")
           ELSE IF adev.mem_used + asz > mem_size THEN fail("-ENOMEM")
           ELSE IF mem = NULL THEN fail("-ENOMEM")
           ELSE IF fault = "out"
           THEN /\ ioc' = IoCall("ALLOC_MEM", "-EFAULT", FreshCtx)
                /\ adev' = [adev EXCEPT !.mem_used = (@ + asz) - asz]
           ELSE /\ adev' = [mem_used |-> adev.mem_used + asz,
                            coherent |-> adev.coherent \cup {mem}]
                /\ ioc' = [IoCall("ALLOC_MEM", "0", FreshCtx)
                              EXCEPT !.handle = mem, !.size = asz]

\* AI_ACCEL_IOC_ALLOC_MEM
IoctlAllocMemory ==
    /\ UNCHANGED <<kernel_vars, lib_vars>>
    /\ \E size \in MemSizes, fault \in {"none", "in", "out"},
          mem \in (DmaAddrs \ adev.coherent) \cup {NULL} :
         AllocMemory(size, fault, mem)

\* ai_ioctl_free_memory behind ai_accel_ioctl
FreeMemory(handle, size, fault) ==
    /\ hist' = Entered(handle \in adev.coherent)
    /\ ioc' = [IoCall("FREE_MEM", IF fault THEN "-EFAULT" ELSE "0", FreshCtx)
                 EXCEPT !.handle = handle, !.size = size]
    /\ adev' = [adev EXCEPT !.mem_used =
                   IF fault THEN adev.mem_used
                   ELSE IF size <= adev.mem_used THEN adev.mem_used - size
                   ELSE adev.mem_used]

\* AI_ACCEL_IOC_FREE_MEM
IoctlFreeMemory ==
    /\ UNCHANGED <<kernel_vars, lib_vars>>
    /\ \E handle \in DmaAddrs, size \in FreeSizes, fault \in BOOLEAN :
         FreeMemory(handle, size, fault)

\* how a call of ai_ioctl_submit_inference can end when its arguments are
\* valid: at the first copy_from_user, at a kvmalloc, at a later copy, or well
SubmitEnds == {"0", "-EFAULT-in", "-ENOMEM", "-EFAULT"}

\* ai_ioctl_submit_inference behind ai_accel_ioctl
SubmitInference(input_size, output_size, batch_size, end) ==
    /\ hist.jobs < MaxJobs
    /\ adev' = adev
    /\ LET fail(r) == /\ ioc' = IoCall("SUBMIT_INFERENCE", r, FreshCtx)
                      /\ hist' = Entered(FALSE)
       IN  IF end = "-EFAULT-in" THEN fail("-EFAULT")
           ELSE IF \/ input_size = 0 \/ input_size > 16 * 1024 * 1024
                   \/ output_size = 0 \/ output_size > 16 * 1024 * 1024
                   \/ batch_size = 0 \/ batch_size > 64
                THEN fail("-EINVAL")
           ELSE IF end # "0" THEN fail(end)
           ELSE /\ ioc' = [IoCall("SUBMIT_INFERENCE", "0",
                                  [total_inferences |->
                                       FreshCtx.total_inferences + 1,
                                   total_bytes_transferred |->
                                       FreshCtx.total_bytes_transferred
                                           + input_size + output_size])
                              EXCEPT !.status = "AI_STATUS_SUCCESS"]
                /\ hist' = [Entered(FALSE) EXCEPT
                               !.jobs = @ + 1,
                               !.bytes = @ + input_size + output_size]

\* AI_ACCEL_IOC_SUBMIT_INFERENCE
IoctlSubmitInference ==
    /\ UNCHANGED <<kernel_vars, lib_vars>>
    /\ \E input_size \in InferSizes, output_size \in InferSizes,
          batch_size \in {0, 1, 65}, end \in SubmitEnds :
         SubmitInference(input_size, output_size, batch_size, end)

\* the bytes of output_data when copy_to_user reads them: memcpy has written
\* the first min(input_size, output_size) from input_data, the rest is what
\* kvmalloc handed out (stale), which nothing has written
OutputData(input, input_size, output_size, stale) ==
    [i \in 1..output_size |->
        IF i <= Min2(input_size, output_size) THEN input[i] ELSE stale[i]]

\* AI_ACCEL_IOC_SUBMIT_INFERENCE with the data it moves: input is what the
\* caller's input buffer holds and stale what the memory of output_data held
\* before.  A call that returns 0 has copied output_size bytes back.
IoctlInferenceData ==
    /\ UNCHANGED <<accel_vars, pool_vars, map_vars, mm, lib_vars>>
    /\ \E input_size \in InferLens, output_size \in InferLens,
          batch_size \in {1, 65}, end \in SubmitEnds :
         /\ SubmitInference(input_size, output_size, batch_size, end)
         /\ \E input \in [1..input_size -> Bytes],
               stale \in [1..output_size -> Bytes] :
              delivered' =
                IF ioc'.ret # "0" THEN delivered
                ELSE <<[input |-> input, input_size |-> input_size,
                        output_size |-> output_size,
                        output |-> OutputData(input, input_size,
                                              output_size, stale)]>>
                     \o SubSeq(delivered, 1, Min2(1, Len(delivered)))

\* AI_ACCEL_IOC_GET_STATS
IoctlGetStats ==
    /\ UNCHANGED <<adev, kernel_vars, lib_vars>>
    /\ \E fault \in BOOLEAN :
         LET ctx == FreshCtx
             stats == [valid |-> TRUE,
                       total_inferences |-> ctx.total_inferences,
                       total_bytes_in |-> ctx.total_bytes_transferred \div 2,
                       total_bytes_out |-> ctx.total_bytes_transferred \div 2,
                       memory_used |-> adev.mem_used,
                       completed_jobs |-> ctx.total_inferences]
         IN  IF fault
             THEN /\ ioc' = IoCall("GET_STATS", "-EFAULT", ctx)
                  /\ hist' = Entered(FALSE)
             ELSE /\ ioc' = [IoCall("GET_STATS", "0", ctx)
                                EXCEPT !.stats = stats]
                  /\ hist' = [Entered(FALSE) EXCEPT
                                 !.read_jobs = stats.total_inferences,
                                 !.read_bytes = stats.total_bytes_in
                                                  + stats.total_bytes_out,
                                 !.prev_jobs = hist.read_jobs,
                                 !.prev_bytes = hist.read_bytes]

\* AI_ACCEL_IOC_WAIT
IoctlWaitCompletion ==
    /\ UNCHANGED <<adev, kernel_vars, lib_vars>>
    /\ hist' = Entered(FALSE)
    /\ \E fence \in Fences, fault \in BOOLEAN :
         ioc' = IF fault
                THEN [IoCall("WAIT", "-EFAULT", FreshCtx)
                        EXCEPT !.handle = fence]
                ELSE [IoCall("WAIT", "0", FreshCtx)
                        EXCEPT !.handle = fence,
                               !.status = "AI_STATUS_SUCCESS"]

NextIoctl ==
    \/ IoctlRejected \/ IoctlGetInfo \/ IoctlSetPower
    \/ IoctlAllocMemory \/ IoctlFreeMemory
    \/ IoctlSubmitInference \/ IoctlGetStats \/ IoctlWaitCompletion

SpecIoctl == Init /\ [][NextIoctl]_vars

\* submit_inference calls with their data, and statistics reads
NextInfer == IoctlInferenceData \/ IoctlGetStats

SpecInfer == Init /\ [][NextInfer]_vars

(***************************************************************************)
(* ai_ioctl.c: ai_ioctl_alloc_memory and ai_ioctl_free_memory step by      *)
(* step.  The file takes no lock, so the callers of different openers run  *)
(* side by side; a step is one access to adev->mem_used or to the coherent *)
(* allocator.  `adev->mem_used += n' and `-= n' on the plain field are a   *)
(* load and a store that another caller's access may come between.  A      *)
(* value below 0 is what the unsigned counter holds after it wrapped.      *)
(***************************************************************************)
MemReturn(t, r) ==
    mm' = [mm EXCEPT ![t] = [NoCaller EXCEPT !.pc = "ret", !.ret = r,
                                             !.calls = mm[t].calls]]
\* the caller's next call begins: it returns r at once or goes on at p
MemEnter(t, p, r, size) ==
    mm' = [mm EXCEPT ![t] = [NoCaller EXCEPT !.pc = p, !.ret = r,
                                             !.size = size,
                                             !.calls = mm[t].calls + 1]]
MemGoto(t, p) == mm' = [mm EXCEPT ![t].pc = p]
MemCanCall(t) == mm[t].pc \in {"idle", "ret"} /\ mm[t].calls < MaxMemCalls
mem_frame == <<ioc, hist, accel_vars, pool_vars, map_vars, lib_vars,
               delivered>>

\* alloc_memory up to the budget check: copy_from_user, the size limits,
\* PAGE_ALIGN and `if (adev->mem_used + alloc.size > adev->mem_size)'
MemAllocCheck(t) ==
    /\ MemCanCall(t)
    /\ UNCHANGED <<adev, mem_frame>>
    /\ \E size \in MemSizes, fault \in BOOLEAN :
         LET asz == PAGE_ALIGN(size)
         IN  IF fault THEN MemEnter(t, "ret", "-EFAULT", 0)
             ELSE IF size = 0 \/ size > 64 * 1024 * 1024
                  THEN MemEnter(t, "ret", "-EINVAL", 0)
             ELSE IF adev.mem_used + asz > mem_size
                  THEN MemEnter(t, "ret", "-ENOMEM", 0)
             ELSE MemEnter(t, "coherent", "none", asz)

\* dma_alloc_coherent; NULL returns -ENOMEM
MemAllocCoherent(t) ==
    /\ mm[t].pc = "coherent"
    /\ UNCHANGED mem_frame
    /\ \E mem \in (DmaAddrs \ adev.coherent) \cup {NULL} :
         IF mem = NULL
         THEN MemReturn(t, "-ENOMEM") /\ adev' = adev
         ELSE /\ adev' = [adev EXCEPT !.coherent = @ \cup {mem}]
              /\ mm' = [mm EXCEPT ![t].pc = "charge", ![t].mem = mem]

\* the load of `adev->mem_used += alloc.size' (charge), of the
\* `adev->mem_used -= alloc.size' after a failed copy out (restore) and of
\* the `adev->mem_used -= mfree.size' of free_memory (release)
MemLoad(t) ==
    /\ mm[t].pc \in {"charge", "restore", "release"}
    /\ UNCHANGED <<adev, mem_frame>>
    /\ mm' = [mm EXCEPT ![t].reg = adev.mem_used,
                        ![t].pc = mm[t].pc \o "_store"]

\* the store of the three updates
MemStore(t) ==
    /\ mm[t].pc \in {"charge_store", "restore_store", "release_store"}
    /\ UNCHANGED mem_frame
    /\ adev' = [adev EXCEPT !.mem_used =
                   IF mm[t].pc = "charge_store" THEN mm[t].reg + mm[t].size
                   ELSE mm[t].reg - mm[t].size]
    /\ CASE mm[t].pc = "charge_store" -> MemGoto(t, "copy_out")
         [] mm[t].pc = "restore_store" -> MemReturn(t, "-EFAULT")
         [] OTHER -> MemReturn(t, "0")

\* copy_to_user of the result; when it fails dma_free_coherent and the
\* counter is restored
MemAllocCopyOut(t) ==
    /\ mm[t].pc = "copy_out"
    /\ UNCHANGED mem_frame
    /\ \E ok \in BOOLEAN :
         IF ok
         THEN MemReturn(t, "0") /\ adev' = adev
         ELSE /\ adev' = [adev EXCEPT !.coherent = @ \ {mm[t].mem}]
              /\ MemGoto(t, "restore")

\* free_memory up to `if (mfree.size <= adev->mem_used)'
MemFreeCheck(t) ==
    /\ MemCanCall(t)
    /\ UNCHANGED <<adev, mem_frame>>
    /\ \E size \in FreeSizes, fault \in BOOLEAN :
         IF fault THEN MemEnter(t, "ret", "-EFAULT", 0)
         ELSE IF size <= adev.mem_used
              THEN MemEnter(t, "release", "none", size)
         ELSE MemEnter(t, "ret", "0", 0)

NextMem ==
    \E t \in Threads :
       \/ MemAllocCheck(t) \/ MemAllocCoherent(t) \/ MemAllocCopyOut(t)
       \/ MemFreeCheck(t) \/ MemLoad(t) \/ MemStore(t)

SpecMem == Init /\ [][NextMem]_vars

(***************************************************************************)
(* libaidrv.c: the library above ai_accel_ioctl.  One caller holds at most *)
(* one device, one buffer and one job at a time and passes valid pointers  *)
(* for the results; a handle it passes is the one it holds or NULL.        *)
(***************************************************************************)

\* the library call fn returns ret and touches nothing but the call record
LibReturn(fn, ret, out) ==
    /\ libcall' = LibCall(fn, ret, out)
    /\ UNCHANGED <<g_initialized, devnode, device, buffer, job,
                   ioctl_vars, kernel_vars>>

\* the module is loaded or unloaded: device_create, device_destroy
NodeChange ==
    /\ device = "none"
    /\ devnode' = ~devnode
    /\ UNCHANGED <<g_initialized, device, buffer, job, libcall,
                   ioctl_vars, kernel_vars>>

\* faulty variant: the library counts as initialised whatever g_initialized is
NotInitializedNever == FALSE

\* if (!g_initialized)
NotInitialized == g_initialized = 0

\* history: what a call of ai_init finds on entry
InitEntry == [was |-> g_initialized, node |-> devnode]

ai_init ==
    /\ UNCHANGED <<devnode, device, buffer, job, ioctl_vars, kernel_vars>>
    /\ IF g_initialized # 0
       THEN /\ libcall' = [LibCall("ai_init", "AI_SUCCESS", InitEntry)
                              EXCEPT !.event = "init_ok"]
            /\ g_initialized' = g_initialized
       ELSE IF ~devnode
       THEN /\ libcall' = [LibCall("ai_init", "AI_ERROR_DEVICE_NOT_FOUND",
                                   InitEntry)
                              EXCEPT !.event = "init_failed"]
            /\ g_initialized' = g_initialized
       ELSE /\ libcall' = [LibCall("ai_init", "AI_SUCCESS", InitEntry)
                              EXCEPT !.event = "init_ok"]
            /\ g_initialized' = 1

ai_shutdown ==
    /\ g_initialized' = 0
    /\ libcall' = [LibCall("ai_shutdown", "void", 0) EXCEPT !.event = "shutdown"]
    /\ UNCHANGED <<devnode, device, buffer, job, ioctl_vars, kernel_vars>>

\* the number of device nodes ai_get_device_count finds: only the node
\* without a number exists
DeviceCount == IF devnode THEN 1 ELSE 0

ai_get_device_count ==
    \E count \in {NULL, 1} :
        IF NotInitialized
        THEN LibReturn("ai_get_device_count", "AI_ERROR_INVALID_HANDLE", 0)
        ELSE IF count = NULL
        THEN LibReturn("ai_get_device_count", "AI_ERROR_INVALID_PARAM", 0)
        ELSE LibReturn("ai_get_device_count", "AI_SUCCESS", DeviceCount)

\* ai_open_device(device_index, device); end is what calloc and open do
ai_open_device ==
    /\ device = "none"
    /\ UNCHANGED <<g_initialized, devnode, buffer, job, ioctl_vars,
                   kernel_vars>>
    /\ \E device_index \in {0, 1}, dev \in {NULL, 1},
          end \in {"AI_SUCCESS", "AI_ERROR_NO_MEMORY", "AI_ERROR_DRIVER_ERROR"} :
         LET fail(r) == /\ libcall' = LibCall("ai_open_device", r, 0)
                        /\ device' = device
         IN  IF NotInitialized THEN fail("AI_ERROR_INVALID_HANDLE")
             ELSE IF dev = NULL THEN fail("AI_ERROR_INVALID_PARAM")
             ELSE IF device_index >= DeviceCount
             THEN fail("AI_ERROR_DEVICE_NOT_FOUND")
             ELSE IF end # "AI_SUCCESS" THEN fail(end)
             ELSE /\ libcall' = LibCall("ai_open_device", "AI_SUCCESS", 1)
                  /\ device' = "open"

\* ai_close_device of the device the caller holds, or of NULL
ai_close_device ==
    /\ buffer.state # "live" /\ job.state # "live"
    /\ UNCHANGED <<g_initialized, devnode, buffer, job, ioctl_vars,
                   kernel_vars>>
    /\ IF device = "none"
       THEN /\ libcall' = LibCall("ai_close_device", "AI_ERROR_INVALID_HANDLE", 0)
            /\ device' = device
       ELSE /\ libcall' = LibCall("ai_close_device", "AI_SUCCESS", 0)
            /\ device' = "none"

\* ai_alloc_buffer(device, size, &buffer); ok is whether calloc succeeds
\* faulty variant: the buffer keeps the size the caller asked for
BufferSizeRequested(size, alloc) == size

\* buf->size = alloc.size, the size the kernel wrote back
BufferSize(size, alloc) == alloc.size

ai_alloc_buffer ==
    /\ buffer.state # "live"
    /\ UNCHANGED <<g_initialized, devnode, device, job, kernel_vars>>
    /\ \E size \in MemSizes, ok \in BOOLEAN,
          mem \in (DmaAddrs \ adev.coherent) \cup {NULL} :
         IF device = "none" \/ size = 0
         THEN /\ libcall' = LibCall("ai_alloc_buffer", "AI_ERROR_INVALID_PARAM", 0)
              /\ UNCHANGED <<buffer, ioctl_vars>>
         ELSE IF ~ok
         THEN /\ libcall' = LibCall("ai_alloc_buffer", "AI_ERROR_NO_MEMORY", 0)
              /\ UNCHANGED <<buffer, ioctl_vars>>
         ELSE /\ AllocMemory(size, "none", mem)
              /\ IF ioc'.ret # "0"
                 THEN /\ libcall' = LibCall("ai_alloc_buffer",
                                            "AI_ERROR_NO_MEMORY", 0)
                      /\ buffer' = buffer
                 ELSE /\ libcall' = LibCall("ai_alloc_buffer", "AI_SUCCESS", 1)
                      /\ buffer' = [NoBuffer EXCEPT !.state = "live",
                                                    !.handle = ioc'.handle,
                                                    !.size = BufferSize(size, ioc'),
                                                    !.charged = adev'.mem_used
                                                                - adev.mem_used]

\* faulty variant: every call maps again
AlreadyMappedNever(b) == FALSE

\* if (buffer->is_mapped)
AlreadyMapped(b) == b.is_mapped # 0

\* the buffer after ai_map_buffer on a buffer that is not NULL; addr is what
\* mmap returns
Mapped(b, addr) ==
    IF AlreadyMapped(b) THEN b
    ELSE IF addr = MAP_FAILED THEN [b EXCEPT !.mapped_ptr = NULL]
    ELSE [b EXCEPT !.mapped_ptr = addr, !.is_mapped = 1, !.vma = TRUE]

\* ai_map_buffer(buffer, &ptr)
ai_map_buffer ==
    /\ buffer.pc = "idle"
    /\ UNCHANGED <<g_initialized, devnode, device, job, ioctl_vars,
                   kernel_vars>>
    /\ \E addr \in MapAddrs \cup {MAP_FAILED} :
         IF buffer.state # "live"
         THEN /\ libcall' = LibCall("ai_map_buffer", "AI_ERROR_INVALID_PARAM", 0)
              /\ buffer' = buffer
         ELSE /\ buffer' = Mapped(buffer, addr)
              /\ libcall' = IF buffer'.is_mapped # 0
                            THEN LibCall("ai_map_buffer", "AI_SUCCESS",
                                         buffer'.mapped_ptr)
                            ELSE LibCall("ai_map_buffer",
                                         "AI_ERROR_DRIVER_ERROR", 0)

\* faulty variant: the mapping is left in place
UnmappedNot(b) == b

\* ai_unmap_buffer on a buffer that is not NULL
Unmapped(b) ==
    IF b.is_mapped = 0 THEN b
    ELSE [b EXCEPT !.vma = FALSE, !.mapped_ptr = NULL, !.is_mapped = 0]

ai_unmap_buffer ==
    /\ buffer.pc = "idle"
    /\ UNCHANGED <<g_initialized, devnode, device, job, ioctl_vars,
                   kernel_vars>>
    /\ IF buffer.state # "live"
       THEN /\ libcall' = LibCall("ai_unmap_buffer", "AI_ERROR_INVALID_HANDLE", 0)
            /\ buffer' = buffer
       ELSE /\ libcall' = LibCall("ai_unmap_buffer", "AI_SUCCESS", 0)
            /\ buffer' = Unmapped(buffer)

\* offset + size <= bsize without the wrap of size_t
InRange(offset, size, bsize) ==
    /\ ~U64Less(bsize, offset)
    /\ ~U64Less(U64Minus(bsize, offset), size)

\* ai_copy_to_device and ai_copy_from_device, which differ in the direction
\* of the memcpy only: host is src or dst, addr what mmap returns and stray
\* what a memcpy outside the mapping does to the process
CopyBuffer(fn) ==
    /\ buffer.pc = "idle"
    /\ UNCHANGED <<devnode, ioctl_vars, kernel_vars>>
    /\ \E host \in {NULL, 1}, off \in CopyOffsets, sz \in CopySizes,
          addr \in MapAddrs \cup {MAP_FAILED}, stray \in {"SIGSEGV", "silent"} :
         LET offset == ToU64(off)
             size == ToU64(sz)
             bsize == ToU64(buffer.size)
             within == InRange(offset, size, bsize)
             out(r, m, c) ==
                 [range |-> r, mapped |-> m, copied |-> c]
             span == IF within THEN "in" ELSE "out"
             b == Mapped(buffer, addr)
         IN  IF buffer.state # "live" \/ host = NULL
             THEN /\ libcall' = LibCall(fn, "AI_ERROR_INVALID_PARAM",
                                        out("none", FALSE, FALSE))
                  /\ UNCHANGED <<g_initialized, device, buffer, job>>
             ELSE IF U64Less(bsize, U64Plus(offset, size))
             THEN /\ libcall' = LibCall(fn, "AI_ERROR_INVALID_PARAM",
                                        out(span, FALSE, FALSE))
                  /\ UNCHANGED <<g_initialized, device, buffer, job>>
             ELSE IF b.is_mapped = 0
             THEN /\ libcall' = LibCall(fn, "AI_ERROR_DRIVER_ERROR",
                                        out(span, TRUE, FALSE))
                  /\ buffer' = b
                  /\ UNCHANGED <<g_initialized, device, job>>
             ELSE IF ~within /\ stray = "SIGSEGV"
             THEN /\ libcall' = [fn |-> fn, ret |-> "SIGSEGV",
                                 out |-> out(span, TRUE, TRUE),
                                 event |-> "none", pre |-> buffer.mapped_ptr]
                  /\ g_initialized' = 0
                  /\ device' = "none"
                  /\ buffer' = NoBuffer
                  /\ job' = NoJob
             ELSE /\ libcall' = LibCall(fn, "AI_SUCCESS",
                                        out(span, TRUE, TRUE))
                  /\ buffer' = Unmapped(b)
                  /\ UNCHANGED <<g_initialized, device, job>>

ai_copy_to_device == CopyBuffer("ai_copy_to_device")

ai_copy_from_device == CopyBuffer("ai_copy_from_device")

\* ai_free_buffer(NULL)
FreeBufferNull ==
    /\ buffer.state # "live"
    /\ LibReturn("ai_free_buffer", "AI_ERROR_INVALID_HANDLE", 0)

\* ai_free_buffer up to the kernel request: if (buffer->is_mapped)
\* ai_unmap_buffer(buffer)
FreeBufferUnmap ==
    /\ buffer.state = "live" /\ buffer.pc = "idle"
    /\ buffer' = [IF buffer.is_mapped # 0 THEN Unmapped(buffer) ELSE buffer
                    EXCEPT !.pc = "free_ioctl",
                           !.was_mapped = (buffer.is_mapped # 0)]
    /\ UNCHANGED <<g_initialized, devnode, device, job, libcall, ioctl_vars,
                   kernel_vars>>

\* ai_free_buffer from the kernel request on: ioctl(AI_ACCEL_IOC_FREE_MEM),
\* whose result is dropped; free(buffer)
FreeBufferIoctl ==
    /\ buffer.pc = "free_ioctl"
    /\ FreeMemory(buffer.handle, buffer.size, FALSE)
    /\ buffer' = [buffer EXCEPT !.state = "freed", !.pc = "idle"]
    /\ libcall' = LibCall("ai_free_buffer", "AI_SUCCESS", 0)
    /\ UNCHANGED <<g_initialized, devnode, device, job, kernel_vars>>

\* ai_run_inference with the caller's buffer as input and as output
RunInference(err) ==
    \E end \in SubmitEnds, batch_size \in {0, 1} :
        /\ SubmitInference(buffer.size, buffer.size, batch_size, end)
        /\ err = IF ioc'.ret # "0" THEN "AI_ERROR_DRIVER_ERROR"
                 ELSE IF ioc'.status = "AI_STATUS_SUCCESS" THEN "AI_SUCCESS"
                 ELSE "AI_ERROR_DRIVER_ERROR"

\* ai_submit_inference(model, inputs, 1, outputs, 1, params, &job); ok is
\* whether calloc succeeds
ai_submit_inference ==
    /\ buffer.state = "live" /\ buffer.pc = "idle" /\ job.state # "live"
    /\ UNCHANGED <<g_initialized, devnode, device, buffer, kernel_vars>>
    /\ \E j \in {NULL, 1}, ok \in BOOLEAN :
         IF j = NULL
         THEN /\ libcall' = LibCall("ai_submit_inference",
                                    "AI_ERROR_INVALID_PARAM", 0)
              /\ UNCHANGED <<job, ioctl_vars>>
         ELSE IF ~ok
         THEN /\ libcall' = LibCall("ai_submit_inference",
                                    "AI_ERROR_NO_MEMORY", 0)
              /\ UNCHANGED <<job, ioctl_vars>>
         ELSE \E err \in {"AI_SUCCESS", "AI_ERROR_DRIVER_ERROR"} :
                /\ RunInference(err)
                /\ job' = [state |-> "live", complete |-> 1, result |-> err,
                           final |-> err, looks |-> 0]
                /\ libcall' = LibCall("ai_submit_inference", "AI_SUCCESS", 1)

\* history: one more call has looked at the job
Looked(j) == [j EXCEPT !.looks = Bump(@)]

\* the library call fn on the job returns ret and stores out
JobReturn(fn, ret, out) ==
    /\ libcall' = LibCall(fn, ret, out)
    /\ job' = Looked(job)
    /\ UNCHANGED <<g_initialized, devnode, device, buffer, ioctl_vars,
                   kernel_vars>>

\* faulty variant: the wait consumes the completion
AfterWaitConsumed(j) == [j EXCEPT !.complete = 0]

\* the job after ai_wait_job has looked at it
AfterWait(j) == j

\* ai_wait_job(job, timeout_ms) on the job the caller holds, or on NULL
ai_wait_job ==
    /\ UNCHANGED <<g_initialized, devnode, device, buffer, ioctl_vars,
                   kernel_vars>>
    /\ IF job.state # "live"
       THEN /\ libcall' = LibCall("ai_wait_job", "AI_ERROR_INVALID_HANDLE", 0)
            /\ job' = job
       ELSE /\ libcall' = LibCall("ai_wait_job",
                                  IF job.complete # 0 THEN "AI_SUCCESS"
                                  ELSE "AI_ERROR_TIMEOUT", 0)
            /\ job' = Looked(AfterWait(job))

\* ai_check_job(job, &complete)
ai_check_job ==
    IF job.state # "live"
    THEN LibReturn("ai_check_job", "AI_ERROR_INVALID_PARAM", 0)
    ELSE JobReturn("ai_check_job", "AI_SUCCESS", job.complete)

\* ai_get_job_result(job, NULL)
ai_get_job_result ==
    IF job.state # "live"
    THEN LibReturn("ai_get_job_result", "AI_ERROR_INVALID_HANDLE", 0)
    ELSE JobReturn("ai_get_job_result", job.result, 0)

\* ai_release_job(job): free(job)
ai_release_job ==
    /\ job.state = "live"
    /\ job' = [job EXCEPT !.state = "released"]
    /\ libcall' = LibCall("ai_release_job", "void", 0)
    /\ UNCHANGED <<g_initialized, devnode, device, buffer, ioctl_vars,
                   kernel_vars>>

NextLib ==
    \/ NodeChange
    \/ ai_init \/ ai_shutdown \/ ai_get_device_count
    \/ ai_open_device \/ ai_close_device
    \/ ai_alloc_buffer \/ ai_map_buffer \/ ai_unmap_buffer
    \/ FreeBufferNull \/ FreeBufferUnmap \/ FreeBufferIoctl
    \/ ai_submit_inference
    \/ ai_wait_job \/ ai_check_job \/ ai_get_job_result \/ ai_release_job

SpecLib == Init /\ [][NextLib]_vars

\* the buffer calls of the library beside ALLOC_MEM requests that other
\* openers make of the same device
NextRound ==
    \/ ai_init \/ ai_open_device
    \/ ai_alloc_buffer \/ ai_map_buffer \/ ai_unmap_buffer
    \/ FreeBufferUnmap \/ FreeBufferIoctl
    \/ IoctlAllocMemory

SpecRound == Init /\ [][NextRound]_vars

\* one caller's buffer calls, the copies among them
NextCopy ==
    \/ ai_init \/ ai_open_device
    \/ ai_alloc_buffer \/ ai_map_buffer \/ ai_unmap_buffer
    \/ ai_copy_to_device \/ ai_copy_from_device
    \/ FreeBufferUnmap \/ FreeBufferIoctl

SpecCopy == Init /\ [][NextCopy]_vars

(***************************************************************************)
(* The dispatcher ai_ioctl of ai_accel.c and the commands it has no case   *)
(* for, beside callers of submit.                                          *)
(***************************************************************************)
AI_IOC_UNLOAD_MODEL == 4
AI_IOC_WAIT == 6
AI_IOC_GET_PROFILE == 7

\* the fences ai_ioctl_submit has handed out
Issued == {fence_log[k].fence : k \in DOMAIN fence_log}

\* ai_ioctl with a command of the right magic and a number up to
\* AI_IOC_MAXNR that the switch has no case for: default: return -ENOTTY.
\* The frame keeps the handle or the fence the request named, and whether
\* that handle was registered or that fence handed out at the call.
ai_ioctl_default(t) ==
    /\ CanCall(t)
    /\ \E nr \in {AI_IOC_UNLOAD_MODEL, AI_IOC_WAIT, AI_IOC_GET_PROFILE},
          h \in UserHandles :
         /\ pc' = [pc EXCEPT ![t] = "ret"]
         /\ loc' = [loc EXCEPT ![t] =
                [NoLoc EXCEPT
                   !.ret = "-ENOTTY", !.nr = nr,
                   !.m = IF nr = AI_IOC_UNLOAD_MODEL THEN h ELSE 0,
                   !.fence = IF nr = AI_IOC_WAIT THEN ToU64(h) ELSE U64Zero,
                   !.known = IF nr = AI_IOC_UNLOAD_MODEL
                             THEN h \in DOMAIN model_idr
                             ELSE nr = AI_IOC_WAIT /\ ToU64(h) \in Issued]]
    /\ UNCHANGED <<leaks, heap, lock, buffer_idr, model_idr, live, freed,
                   counters, dma_vars>>

NextDispatch ==
    \E t \in Threads :
       \/ ai_ioctl_default(t)
       \/ SubmitFault(t) \/ SubmitValidate(t) \/ SubmitUnlock(t)
       \/ SubmitFence(t) \/ SubmitExec(t) \/ SubmitFinish(t)

SpecDispatch == InitLock /\ [][NextDispatch]_vars

(***************************************************************************)
(* Sessions: ai_open and ai_release of the device node.  A handler runs on  *)
(* an open file, and the file is released after its handlers returned.     *)
(***************************************************************************)
\* no file of the device node is open
Closed == \A t \in Threads : pc[t] = "closed"

\* ai_open: file->private_data = dev; return 0
ai_open ==
    /\ Closed
    /\ pc' = [t \in Threads |-> "idle"]
    /\ UNCHANGED <<lock, buffer_idr, model_idr, heap, leaks, loc, live, freed,
                   counters, dma_vars>>

\* ai_release: return 0
ai_release ==
    /\ \A t \in Threads : CanCall(t)
    /\ pc' = [t \in Threads |-> "closed"]
    /\ loc' = [t \in Threads |-> NoLoc]
    /\ UNCHANGED <<lock, buffer_idr, model_idr, heap, leaks, live, freed, counters,
                   dma_vars>>

\* alloc, free and load_model on the open file, between ai_open and
\* ai_release
NextSession ==
    \/ ai_open \/ ai_release
    \/ \E t \in Threads :
          \/ AllocRegister(t) \/ AllocUnlock(t)
          \/ AllocUnwind(t) \/ AllocUnwindUnlock(t)
          \/ FreeLocked(t) \/ FreeUnlock(t)
          \/ LoadRegister(t) \/ LoadUnlock(t)
          \/ LoadUnwind(t) \/ LoadUnwindUnlock(t)

\* ai_accel_init has run and the device node is not open
InitSession ==
    /\ lock = 0
    /\ buffer_idr = EmptyIdr
    /\ model_idr = EmptyIdr
    /\ fence_counter = 0
    /\ total_inferences = U64Zero
    /\ total_bytes_processed = U64Zero
    /\ heap = {}
    /\ pc = [t \in Threads |-> "closed"]
    /\ loc = [t \in Threads |-> NoLoc]
    /\ live = [k \in Handles |-> 0]
    /\ freed = {}
    /\ channel_bitmap = {}
    /\ dma_channels = [i \in Channels |-> FALSE]
    /\ xfers = [x \in {IdleXfer} |-> MaxTransfers]
    /\ init_ret = "none"
    /\ pinned = 0
    /\ dma_maps = 0
    /\ ubuf = IdleBuf
    /\ channel_lock = 0
    /\ leaks = 0
    /\ InitExt
    /\ fence_log = <<>>

SpecSession == InitSession /\ [][NextSession]_vars

(***************************************************************************)
(* Module unload: ai_accel_exit, with ai_dma_exit for the channel pool.     *)
(* The handlers are reached through ai_fops, whose owner is the module, so  *)
(* no handler is running when the module is unloaded; a transfer that was   *)
(* started asynchronously has no caller and may still be on its channel.   *)
(***************************************************************************)
Unloaded == \A t \in Threads : pc[t] = "unloaded"

\* ai_accel_exit: idr_destroy(&ai_dev->buffer_idr); idr_destroy(&ai_dev->
\* model_idr); kfree(ai_dev).  idr_destroy frees the tables, not the records
\* their entries point to.
ai_accel_exit ==
    /\ \A t \in Threads : CanCall(t)
    /\ buffer_idr' = EmptyIdr
    /\ model_idr' = EmptyIdr
    /\ heap' = heap
    /\ leaks' = leaks
    /\ pc' = [t \in Threads |-> "unloaded"]
    /\ loc' = [t \in Threads |-> NoLoc]
    /\ UNCHANGED <<lock, live, freed, counters>>

\* the device-wide teardown: ai_accel_exit and ai_dma_exit, with no caller
\* inside a transfer routine
Teardown ==
    /\ \A x \in DOMAIN xfers : x.pc \in {"idle", "ret", "async_flight"}
    /\ ai_accel_exit
    /\ ReleaseChannels
    /\ UNCHANGED <<xfers, side_vars>>

\* alloc and load_model callers, asynchronous transfers, and the teardown
NextExit ==
    \/ \E t \in Threads :
          \/ AllocRegister(t) \/ AllocUnlock(t)
          \/ AllocUnwind(t) \/ AllocUnwindUnlock(t)
          \/ LoadRegister(t) \/ LoadUnlock(t)
          \/ LoadUnwind(t) \/ LoadUnwindUnlock(t)
    \/ ai_dma_init \/ AsyncAcquire \/ AsyncStart \/ Complete
    \/ Teardown

\* ai_accel_init and the DMA module before ai_dma_init, with ExitTransfers
\* callers of the transfer routines
InitExit ==
    /\ lock = 0
    /\ buffer_idr = EmptyIdr
    /\ model_idr = EmptyIdr
    /\ fence_counter = 0
    /\ total_inferences = U64Zero
    /\ total_bytes_processed = U64Zero
    /\ heap = {}
    /\ pc = [t \in Threads |-> "idle"]
    /\ loc = [t \in Threads |-> NoLoc]
    /\ live = [k \in Handles |-> 0]
    /\ freed = {}
    /\ channel_bitmap = {}
    /\ dma_channels = [i \in Channels |-> FALSE]
    /\ xfers = [x \in {IdleXfer} |-> ExitTransfers]
    /\ init_ret = "none"
    /\ pinned = 0
    /\ dma_maps = 0
    /\ ubuf = IdleBuf
    /\ channel_lock = 0
    /\ leaks = 0
    /\ InitExt
    /\ fence_log = <<>>

SpecExit == InitExit /\ [][NextExit]_vars

(***************************************************************************)
(* ai_dma.c: ai_dma_map_user_buffer and ai_dma_free_buffer.  The routines   *)
(* share no data with other callers, so one caller is followed.            *)
(***************************************************************************)

\* DIV_ROUND_UP(n, d)
DIV_ROUND_UP(n, d) == (n + d - 1) \div d

\* the call fails with code: every array and the descriptor were freed
MapFail(code) == [IdleBuf EXCEPT !.pc = "failed", !.ret = code,
                                 !.pinned0 = ubuf.pinned0, !.maps0 = ubuf.maps0]

\* buf = kzalloc; nr_pages = DIV_ROUND_UP(size + offset_in_page(user_addr),
\* PAGE_SIZE); pages = kvmalloc_array(nr_pages, ...)
MapUserAlloc ==
    /\ ubuf.pc \in {"idle", "failed", "released"}
    /\ \E o \in Offsets, size \in MapSizes :
         LET nr == DIV_ROUND_UP(size + o, PAGE_SIZE) IN
           /\ pinned + nr <= MaxPinned
           /\ \/ ubuf' = [IdleBuf EXCEPT !.pc = "failed", !.ret = "-ENOMEM",
                                         !.pinned0 = pinned, !.maps0 = dma_maps]
              \/ ubuf' = [IdleBuf EXCEPT !.pc = "map_pin", !.o = o,
                                         !.size = size, !.nr_pages = nr,
                                         !.buf = TRUE, !.pages = TRUE,
                                         !.pinned0 = pinned, !.maps0 = dma_maps]
    /\ UNCHANGED <<pinned, dma_maps, pool_vars, ext_vars, accel_vars>>

\* faulty variant: the pages of a partial pin stay pinned
UnpinNone(n) == 0

\* unpin_user_pages(pages, n)
UnpinUserPages(n) == n

\* ret = pin_user_pages_fast(user_addr, nr_pages, ...): a negative errno (-1
\* here), or the number of pages pinned; fewer than nr_pages are unpinned
MapUserPin ==
    /\ ubuf.pc = "map_pin"
    /\ \E ret \in {-1} \cup 0..ubuf.nr_pages :
         IF ret < 0
         THEN ubuf' = MapFail("-EFAULT") /\ pinned' = pinned
         ELSE IF ret # ubuf.nr_pages
         THEN /\ ubuf' = MapFail("-EFAULT")
              /\ pinned' = pinned + ret - UnpinUserPages(ret)
         ELSE /\ ubuf' = [ubuf EXCEPT !.pc = "map_sg"]
              /\ pinned' = pinned + ret
    /\ UNCHANGED <<dma_maps, pool_vars, ext_vars, accel_vars>>

\* entry i of the scatterlist, as the loop of lines 215-221 computes it:
\* offset and len are unsigned int, the operands of min_t are size_t, and
\* i * PAGE_SIZE - offset_in_page(user_addr) is unsigned long arithmetic
SgEntry(i, o, size) ==
    LET offset == IF i = 0 THEN o ELSE 0
        before == U64Minus(U64Times(ToU64(PAGE_SIZE), i), ToU64(o))
        len == U64ToUInt(U64Min(ToU64(PAGE_SIZE - offset),
                                U64Minus(ToU64(size), before)))
    IN  [len |-> len, offset |-> offset]

\* buf->sg = kvmalloc_array(nr_pages, ...); sg_init_table; the fill loop
MapUserSg ==
    /\ ubuf.pc = "map_sg"
    /\ \/ /\ ubuf' = MapFail("-ENOMEM")
          /\ pinned' = pinned - UnpinUserPages(ubuf.nr_pages)
       \/ /\ ubuf' = [ubuf EXCEPT
                        !.pc = "map_dma", !.sgmem = TRUE,
                        !.sg = [k \in 1..ubuf.nr_pages |->
                                   SgEntry(k - 1, ubuf.o, ubuf.size)]]
          /\ pinned' = pinned
    /\ UNCHANGED <<dma_maps, pool_vars, ext_vars, accel_vars>>

\* buf->sg_count = dma_map_sg(dev, buf->sg, nr_pages, dir): 0 on failure,
\* else the number of segments mapped; on success buf->mapped = true and
\* kvfree(pages)
MapUserDma ==
    /\ ubuf.pc = "map_dma"
    /\ \E count \in 0..ubuf.nr_pages :
         IF count = 0
         THEN /\ ubuf' = MapFail("-EIO")
              /\ pinned' = pinned - UnpinUserPages(ubuf.nr_pages)
              /\ dma_maps' = dma_maps
         ELSE /\ ubuf' = [ubuf EXCEPT !.pc = "built", !.sg_count = count,
                                      !.mapped = TRUE, !.pages = FALSE]
              /\ pinned' = pinned
              /\ dma_maps' = dma_maps + ubuf.nr_pages
    /\ UNCHANGED <<pool_vars, ext_vars, accel_vars>>

\* ai_dma_free_buffer(dev, buf) of a built region: buf->cpu_addr is NULL (the
\* descriptor came from kzalloc), so only kfree(buf->sg) and kfree(buf) run
ai_dma_free_buffer ==
    /\ ubuf.pc = "built"
    /\ ubuf' = [IdleBuf EXCEPT !.pc = "released", !.pinned0 = ubuf.pinned0,
                               !.maps0 = ubuf.maps0]
    /\ UNCHANGED <<pinned, dma_maps, pool_vars, ext_vars, accel_vars>>

NextMap ==
    \/ MapUserAlloc \/ MapUserPin \/ MapUserSg \/ MapUserDma
    \/ ai_dma_free_buffer

SpecMap == Init /\ [][NextMap]_vars

(***************************************************************************)
(* Properties of the handle tables (ai_ioctl_alloc, ai_ioctl_free).        *)
(***************************************************************************)
\* C1: for every interleaving of alloc and free calls no two simultaneously
\* live buffer handles are equal: a handle value that a successful alloc gave
\* out is given out again only after a free of it succeeded.
C1_LiveHandlesDistinct == \A h \in Handles : live[h] <= 1

\* t takes the step of ai_ioctl_free that looks the handle up under the mutex
FreeLookupStep(t) == CanCall(t) /\ pc'[t] = "free_unlock"

\* t takes the step of ai_ioctl_free that releases the mutex and returns
FreeReturnStep(t) == pc[t] = "free_unlock" /\ pc'[t] = "ret"

\* C2: a free of a handle in the buffer table succeeds and removes that entry,
\* so that a second free of it with no alloc in between finds nothing; a free
\* of a freed handle, and of any handle that is not in the table, returns
\* -EINVAL (the driver's NotFound), removes no entry from the buffer table or
\* the model table and frees no record.
C2_DoubleFree ==
    [][\A t \in Threads :
         /\ FreeLookupStep(t) =>
              LET hv == loc'[t].h IN
                /\ model_idr' = model_idr
                /\ heap' = heap
                /\ hv \in freed => hv \notin DOMAIN buffer_idr
                /\ IF hv \in DOMAIN buffer_idr
                   THEN /\ loc'[t].p = buffer_idr[hv]
                        /\ DOMAIN buffer_idr' = DOMAIN buffer_idr \ {hv}
                        /\ hv \in freed'
                   ELSE /\ loc'[t].p = NULL
                        /\ buffer_idr' = buffer_idr
         /\ FreeReturnStep(t) =>
              /\ buffer_idr' = buffer_idr
              /\ model_idr' = model_idr
              /\ IF loc[t].p = NULL
                 THEN loc'[t].ret = "-EINVAL" /\ heap' = heap
                 ELSE loc'[t].ret = "0" /\ heap' = heap \ {loc[t].p}]_vars

\* a second free of handle 1, with no alloc since the first, has found nothing
\* and is about to return -EINVAL while the model table and the heap hold
\* records it must not touch
C2_SecondFreeSeen ==
    \E t \in Threads :
       /\ pc[t] = "free_unlock"
       /\ loc[t].h \in freed
       /\ loc[t].p = NULL
       /\ DOMAIN model_idr # {}

\* t takes the step of ai_ioctl_alloc (or of another handler) that rejects
\* the request with -EINVAL
RejectStep(t) ==
    /\ CanCall(t)
    /\ <<pc'[t], loc'[t]>> # <<pc[t], loc[t]>>
    /\ pc'[t] = "ret" /\ loc'[t].ret = "-EINVAL"

\* t takes the step of ai_ioctl_alloc that passed the size check
AcceptStep(t) == CanCall(t) /\ pc'[t] = "alloc_unlock"

\* C3: alloc with size 0 and with size max_alloc_size + 1 fail with -EINVAL and
\* leave the buffer table unchanged; no size outside 1..max_alloc_size passes
\* the size check and no size inside it is rejected by the check.
C3_SizeCheck ==
    [][\A t \in Threads :
         /\ AcceptStep(t) => loc'[t].size \in 1..max_alloc_size
         /\ RejectStep(t) =>
              /\ loc'[t].size \notin 1..max_alloc_size
              /\ buffer_idr' = buffer_idr]_vars

\* with an entry in the buffer table, one caller's alloc of max_alloc_size + 1
\* bytes has been rejected while another caller's alloc of max_alloc_size
\* bytes has passed the check
C3_LimitsSeen ==
    \E t \in Threads, u \in Threads :
       /\ pc[t] = "ret" /\ loc[t].ret = "-EINVAL"
       /\ loc[t].size = max_alloc_size + 1
       /\ pc[u] = "alloc_unlock" /\ loc[u].size = max_alloc_size
       /\ loc[u].h \in DOMAIN buffer_idr

(***************************************************************************)
(* Properties of submit and of the fence counter (ai_ioctl_submit).        *)
(***************************************************************************)
\* t takes the step of ai_ioctl_submit that validates the three handles
ValidateStep(t) == CanCall(t) /\ pc'[t] = "submit_unlock"

\* C4: submit issues a fence only if the model handle resolves in the model
\* table and the input and the output handle resolve in the buffer table; when
\* one of the three does not resolve it returns -EINVAL (InvalidHandle) and
\* the fence counter and the statistics counters are unchanged.
C4_FenceNeedsHandles ==
    [][\A t \in Threads :
         /\ ValidateStep(t) =>
              /\ loc'[t].valid = (/\ loc'[t].m \in DOMAIN model_idr
                                  /\ loc'[t].i \in DOMAIN buffer_idr
                                  /\ loc'[t].o \in DOMAIN buffer_idr)
              /\ counters' = counters
         /\ (pc[t] = "submit_unlock" /\ pc'[t] # "submit_unlock") =>
              IF loc[t].valid
              THEN pc'[t] = "submit_fence"
              ELSE /\ pc'[t] = "ret" /\ loc'[t].ret = "-EINVAL"
                   /\ counters' = counters
         /\ (pc'[t] = "submit_fence" /\ pc[t] # "submit_fence") =>
              pc[t] = "submit_unlock" /\ loc[t].valid
         /\ (pc'[t] = "submit_exec" /\ pc[t] # "submit_exec") =>
              pc[t] = "submit_fence"]_vars

\* after a fence was issued, a submit whose model and input handle resolve but
\* whose output handle does not has been found invalid
C4_BadOutputSeen ==
    \E t \in Threads :
       /\ pc[t] = "submit_unlock"
       /\ ~loc[t].valid
       /\ loc[t].m \in DOMAIN model_idr
       /\ loc[t].i \in DOMAIN buffer_idr
       /\ loc[t].o \notin DOMAIN buffer_idr
       /\ fence_counter > 0

\* C5: the fences issued to concurrent submit callers are pairwise distinct and
\* the fences issued to one caller are strictly increasing (compared as
\* unsigned 64-bit values), for every interleaving of the callers.
C5_FencesDistinct ==
    \A a \in 1..Len(fence_log), b \in 1..Len(fence_log) :
       a < b =>
          /\ fence_log[a].fence # fence_log[b].fence
          /\ fence_log[a].t = fence_log[b].t =>
               U64Less(fence_log[a].fence, fence_log[b].fence)

\* two callers hold fences at the same time, issued while both were inside
\* ai_ioctl_submit
C5_ConcurrentFencesSeen ==
    /\ \A t \in Threads : pc[t] \in {"submit_exec", "submit_bytes"}
    /\ Len(fence_log) >= 2
    /\ \E a \in 1..Len(fence_log), b \in 1..Len(fence_log) :
         fence_log[a].t # fence_log[b].t

\* C6: the fence is a 64-bit value that never decreases and is never reused:
\* every fence issued is strictly greater, as an unsigned 64-bit value, than
\* every fence issued before it, over any number of submits.
C6_FencesIncrease ==
    \A a \in 1..Len(fence_log), b \in 1..Len(fence_log) :
       a < b => U64Less(fence_log[a].fence, fence_log[b].fence)

(***************************************************************************)
(* Properties of the channel pool and of the transfers (ai_dma.c).         *)
(***************************************************************************)
\* C7: at every moment each channel is held by at most one in-flight
\* transfer, synchronous or asynchronous.
C7_ChannelExclusive ==
    \A c \in Channels : Copies(xfers, InFlightOn(c)) <= 1

\* C8: with all AI_DMA_CHANNELS channels available and as many transfers in
\* flight, one more transfer's channel acquisition fails, so that never more
\* than AI_DMA_CHANNELS transfers are in flight.
C8_FifthAcquireFails ==
    channel_bitmap = Channels => Copies(xfers, InFlight) <= AI_DMA_CHANNELS

C10_ExactlyOneCompletion ==
    \A x \in DOMAIN xfers :
       (x.pc = "ret" /\ x.op # "none") => (x.signals = 1 /\ x.consumed)

\* C10, amended: every operation that ai_dma_transfer_sync submitted has at
\* most one completion delivered, which carries the end timestamp and status
\* 0; the call returns the transfer status exactly when its own waiter
\* consumed that completion, a call that timed out has consumed none, and no
\* descriptor of a returned call is pending, so none is delivered after the
\* return.
C10_AtMostOneCompletion ==
    \A x \in DOMAIN xfers :
       /\ x.signals <= 1
       /\ x.signals = 1 => (x.stamped /\ x.status = "0")
       /\ x.consumed => x.signals = 1
       /\ x.pc = "ret" =>
            /\ x.op # "pending"
            /\ x.op # "none" =>
                 \/ x.ret = "0" /\ x.consumed /\ x.done = 0
                 \/ x.ret = "-ETIMEDOUT" /\ ~x.consumed

\* one transfer has returned 0 after consuming its completion while another,
\* terminated with no completion delivered, has returned -ETIMEDOUT
C10_BothOutcomesSeen ==
    /\ \E x \in DOMAIN xfers :
         x.pc = "ret" /\ x.ret = "0" /\ x.consumed /\ x.signals = 1
    /\ \E y \in DOMAIN xfers :
         y.pc = "ret" /\ y.ret = "-ETIMEDOUT" /\ y.signals = 0 /\ y.op = "killed"

\* C11: every asynchronous transfer that returned a cookie has its callback
\* run when the hardware completes it: no descriptor issued by
\* ai_dma_transfer_async is discarded with its callback never invoked, whatever
\* synchronous and asynchronous transfers run beside it.
C11_AsyncCallbackRuns ==
    \A x \in DOMAIN xfers : ~(x.pc = "idle" /\ x.op = "killed")

(***************************************************************************)
(* Properties of ai_dma_map_user_buffer and ai_dma_free_buffer.            *)
(***************************************************************************)
RECURSIVE SumLen(_)
SumLen(sg) == IF sg = <<>> THEN 0 ELSE Head(sg).len + SumLen(Tail(sg))

\* C12: for a region of size s >= 1 starting at offset o of its first page,
\* the scatterlist ai_dma_map_user_buffer fills has ceil((s + o) / PAGE_SIZE)
\* entries whose lengths sum to s; entry 0 starts at offset o and every later
\* entry at 0; no entry reaches over the end of its page (the last one is
\* clipped to the end of the region).
C12_SegmentsCoverRegion ==
    ubuf.sgmem =>
       /\ Len(ubuf.sg) * PAGE_SIZE >= ubuf.size + ubuf.o
       /\ (Len(ubuf.sg) - 1) * PAGE_SIZE < ubuf.size + ubuf.o
       /\ SumLen(ubuf.sg) = ubuf.size
       /\ \A k \in 1..Len(ubuf.sg) :
            /\ ubuf.sg[k].offset = (IF k = 1 THEN ubuf.o ELSE 0)
            /\ ubuf.sg[k].len >= 1
            /\ ubuf.sg[k].offset + ubuf.sg[k].len <= PAGE_SIZE

\* C13: ai_dma_map_user_buffer is all-or-nothing.  When it fails (the pin
\* fails, fewer pages than asked are pinned, the scatterlist cannot be
\* allocated, or dma_map_sg maps nothing) every page it pinned is unpinned
\* again, nothing is mapped and neither the descriptor nor an array is left
\* allocated; when it succeeds all nr_pages pages are pinned and the
\* descriptor is marked mapped.
C13_BuildAllOrNothing ==
    /\ ubuf.pc = "failed" =>
          /\ pinned = ubuf.pinned0
          /\ dma_maps = ubuf.maps0
          /\ ~ubuf.buf /\ ~ubuf.pages /\ ~ubuf.sgmem /\ ~ubuf.mapped
          /\ ubuf.ret \in {"-ENOMEM", "-EFAULT", "-EIO"}
    /\ ubuf.pc = "built" =>
          /\ pinned = ubuf.pinned0 + ubuf.nr_pages
          /\ ubuf.nr_pages = DIV_ROUND_UP(ubuf.size + ubuf.o, PAGE_SIZE)
          /\ ubuf.mapped /\ ubuf.buf /\ ubuf.sgmem
          /\ ubuf.sg_count \in 1..ubuf.nr_pages
          /\ ubuf.ret = "0"

\* a build has failed in dma_map_sg, the last step that can fail, after all
\* its pages had been pinned, and no page is pinned any more
C13_LateFailureSeen ==
    /\ ubuf.pc = "failed" /\ ubuf.ret = "-EIO"
    /\ ubuf.pinned0 = 0
    /\ pinned = 0

\* C14: when a region built by ai_dma_map_user_buffer has been released by
\* ai_dma_free_buffer, its pages are unmapped and unpinned: the pinned pages
\* and the live device mappings are as many as before the build.
C14_ReleaseRestores ==
    ubuf.pc = "released" =>
       /\ pinned = ubuf.pinned0
       /\ dma_maps = ubuf.maps0

(***************************************************************************)
(* Further properties of the transfer routines and of the channel pool.    *)
(***************************************************************************)
\* C15: a transfer of size 0, synchronous or asynchronous, is rejected before
\* a channel is selected or a descriptor prepared: no call of a transfer
\* routine with size 0 holds a channel or has a descriptor.
C15_ZeroSizeRejected ==
    \A x \in DOMAIN xfers :
       (x.pc \in InFlightPcs /\ x.size = 0) => (x.chan = -1 /\ x.op = "none")

\* a step of ai_dma_init that changes what the pool holds or what it returned
InitStep ==
    /\ \A i \in Channels : ~dma_channels[i]
    /\ <<dma_channels', channel_bitmap', init_ret'>>
          # <<dma_channels, channel_bitmap, init_ret>>

SubmitPcs == {"submit_fence", "submit_exec", "submit_bytes"}

\* a free of handle h has removed the entry and has not yet freed the record
Freeing(h) ==
    \E u \in Threads :
       pc[u] = "free_unlock" /\ loc[u].h = h /\ loc[u].p # NULL

\* C17: while a submit that validated the buffer handle h is outstanding, a
\* free of h does not destroy the buffer: it is rejected, or deferred until
\* the submit has returned.  A handle that was in the table when the submit
\* validated it is never found freed, with the record gone, while the submit
\* is between its validation and its return.
C17_BufferOutlivesSubmit ==
    \A t \in Threads :
       pc[t] \in SubmitPcs =>
          \A h \in {loc[t].i, loc[t].o} :
             h \in freed => Freeing(h)

\* C18: under every interleaving of alloc, free and submit no buffer record
\* is used or freed after a free destroyed it and every record is freed once:
\* the record that the failure unwind of ai_ioctl_alloc is about to free is
\* still allocated; and the unwind removes only the entry it registered, so
\* a handle that an alloc gave out and no free released has an entry.
C18_RecordFreedOnce ==
    /\ \A t \in Threads :
          pc[t] \in {"alloc_unwind", "alloc_unwind_unlock", "free_unlock"} =>
             (loc[t].p # NULL => loc[t].p \in heap)
    /\ \A h \in Handles : live[h] > 0 => h \in DOMAIN buffer_idr

\* the positions inside ai_ioctl_alloc and ai_ioctl_free, and inside
\* ai_ioctl_load_model
BufferPcs == {"alloc_unlock", "alloc_unwind", "alloc_unwind_unlock",
              "free_unlock"}
ModelPcs == {"load_unlock", "load_unwind", "load_unwind_unlock"}

\* t takes a step that enters, continues or leaves a handler positioned in P
StepIn(t, P) ==
    /\ <<pc'[t], loc'[t]>> # <<pc[t], loc[t]>>
    /\ pc[t] \in P \/ pc'[t] \in P

\* C19: the buffer handles and the model handles are separate namespaces.  No
\* step of alloc or free changes the model table and no step of load_model
\* changes the buffer table; submit changes neither, and it resolves the
\* model handle in the model table only and the input and output handle in
\* the buffer table only.
C19_TablesIndependent ==
    [][\A t \in Threads :
         /\ StepIn(t, BufferPcs) => model_idr' = model_idr
         /\ StepIn(t, ModelPcs) => buffer_idr' = buffer_idr
         /\ StepIn(t, SubmitPcs \cup {"submit_unlock"}) =>
              model_idr' = model_idr /\ buffer_idr' = buffer_idr
         /\ ValidateStep(t) =>
              loc'[t].valid = (/\ loc'[t].m \in DOMAIN model_idr
                               /\ loc'[t].i \in DOMAIN buffer_idr
                               /\ loc'[t].o \in DOMAIN buffer_idr)]_vars

\* handle 1 is live in both tables and names different records there, while
\* a submit of model 1 with buffers 1 and 1 has been found valid
C19_SameHandleInBoth ==
    /\ 1 \in DOMAIN buffer_idr /\ 1 \in DOMAIN model_idr
    /\ buffer_idr[1] # model_idr[1]
    /\ \E t \in Threads :
         pc[t] = "submit_unlock" /\ loc[t].valid /\ loc[t].m = 1 /\ loc[t].i = 1

(***************************************************************************)
(* Properties of the module unload.                                        *)
(***************************************************************************)
\* C20: after the device-wide teardown no buffer or model record is left
\* allocated, every channel is released, and every transfer that was
\* outstanding has been terminated, so that none is pending on a channel
\* that was released under it.
C20_TeardownReleasesAll ==
    Unloaded =>
       /\ heap = {}
       /\ \A i \in Channels : ~dma_channels[i]
       /\ \A x \in DOMAIN xfers : x.op # "pending"

(***************************************************************************)
(* Properties of the sessions (ai_open, ai_release).                        *)
(***************************************************************************)
\* C21: the handle tables belong to one open session: every handle that is
\* live when the device is closed is released by the close, so that with no
\* file open both tables are empty and a handle of an earlier session does
\* not resolve in a later one.
C21_HandlesEndWithSession ==
    Closed => (buffer_idr = EmptyIdr /\ model_idr = EmptyIdr)

(***************************************************************************)
(* Properties of the locks.                                                *)
(***************************************************************************)
\* C22: no caller holds dev->lock or channel_lock in a step that waits for
\* the hardware: the holder of dev->lock is never in a step of submit after
\* the validation, and channel_lock is held only by a caller that is in the
\* channel search.  So whatever submit or transfer is blocked, an alloc and
\* a free of another thread take dev->lock as soon as no handler holds it,
\* and a free that holds it completes.
C22_NoLockWhileBlocked ==
    /\ \A t \in Threads : pc[t] \in SubmitPcs => lock # t
    /\ channel_lock = Copies(xfers, {x \in DOMAIN xfers : x.pc = "sync_search"})
    /\ \A u \in Threads :
          /\ (CanCall(u) /\ lock = 0) =>
                (ENABLED FreeLocked(u) /\ ENABLED AllocRegister(u))
          /\ (pc[u] = "free_unlock" /\ lock = u) => ENABLED FreeUnlock(u)
          /\ (pc[u] = "alloc_unlock" /\ lock = u) => ENABLED AllocUnlock(u)

\* one thread sleeps in the execute step of submit and a transfer waits for
\* its completion, while the other thread holds dev->lock inside free
C22_FreeBesideBlockedSeen ==
    /\ \E t \in Threads, u \in Threads :
          /\ pc[t] = "submit_exec"
          /\ pc[u] = "free_unlock" /\ lock = u /\ loc[u].p # NULL
    /\ \E x \in DOMAIN xfers : x.pc = "sync_wait" /\ x.op = "pending"

(***************************************************************************)
(* Properties of the ioctl module.                                         *)
(***************************************************************************)
\* C23: a statistics read reports the submissions that have succeeded: the
\* job count is their number and the byte count the sum of their input and
\* output sizes; from one read to the next neither count decreases.
C23_StatsCountSubmissions ==
    (ioc.cmd = "GET_STATS" /\ ioc.ret = "0") =>
        /\ ioc.stats.total_inferences = hist.jobs
        /\ ioc.stats.completed_jobs = hist.jobs
        /\ ioc.stats.total_bytes_in + ioc.stats.total_bytes_out = hist.bytes
        /\ hist.read_jobs >= hist.prev_jobs
        /\ hist.read_bytes >= hist.prev_bytes

\* C24: free_memory of a block that is not outstanding returns an error and
\* leaves mem_used as it was; a free_memory that returns 0 has released an
\* outstanding block; a free_memory that fails never lowers mem_used.
C24_FreeChecksOutstanding ==
    ioc.cmd = "FREE_MEM" =>
        /\ ~hist.known => (ioc.ret = "-ENOENT" /\ adev.mem_used = hist.before)
        /\ ioc.ret = "0" => (hist.known /\ ioc.handle \notin adev.coherent)
        /\ ioc.ret # "0" => adev.mem_used >= hist.before

(***************************************************************************)
(* Properties of the userspace library.                                    *)
(***************************************************************************)
\* C25: ai_free_buffer unmaps before it releases: when it sends the kernel
\* free request the buffer is no longer mapped, and when it has returned
\* the buffer is neither mapped nor live.
C25_UnmapBeforeFree ==
    /\ buffer.pc = "free_ioctl" => (buffer.is_mapped = 0 /\ ~buffer.vma)
    /\ (libcall.fn = "ai_free_buffer" /\ libcall.ret = "AI_SUCCESS") =>
          (buffer.state = "freed" /\ buffer.is_mapped = 0 /\ ~buffer.vma)

\* ai_free_buffer has returned for a buffer that was mapped when it was called
C25_MappedBufferFreed ==
    /\ libcall.fn = "ai_free_buffer" /\ libcall.ret = "AI_SUCCESS"
    /\ buffer.state = "freed" /\ buffer.was_mapped

C30_InitGatesDeviceCalls ==
    /\ (g_initialized = 1) <=> (libcall.event = "init_ok")
    /\ libcall.fn = "ai_init" =>
          /\ (libcall.ret = "AI_SUCCESS") <=>
                (libcall.out.was = 1 \/ libcall.out.node)
          /\ (libcall.ret # "AI_SUCCESS") => g_initialized = 0
          /\ (libcall.out.was = 1) => g_initialized = 1
    /\ (/\ libcall.fn \in {"ai_get_device_count", "ai_open_device"}
        /\ libcall.event # "init_ok") => libcall.ret # "AI_SUCCESS"

\* ai_init has failed for want of the node, the node has appeared since, and
\* ai_get_device_count is refused
C30_RefusedAfterFailedInit ==
    /\ libcall.fn = "ai_get_device_count" /\ libcall.event = "init_failed"
    /\ devnode /\ libcall.ret = "AI_ERROR_INVALID_HANDLE"

(***************************************************************************)
(* Properties of ai_ioctl_load_model and of the dispatcher.                *)
(***************************************************************************)
\* t returns from ai_ioctl_load_model with an error
LoadFails(t) ==
    /\ pc[t] \in ModelPcs \/ LoadReject(t)
    /\ pc'[t] = "ret" /\ loc'[t].ret # "0"

\* C26: a load_model that fails leaves nothing behind.  When it fails before
\* it asks for a handle, the model table and the allocated records are what
\* they were; when the registration fails the table is what it was; when it
\* fails after the registration the handle it had registered is out of the
\* table again; in both of these its record has been freed, not lost.  No
\* failing step adds a handle to the table.
C26_FailedLoadLeavesNothing ==
    [][\A t \in Threads :
         LoadFails(t) =>
            /\ leaks' = leaks
            /\ IF pc[t] \in ModelPcs
               THEN /\ loc[t].p \notin heap'
                    /\ loc[t].h < 0 => model_idr' = model_idr
                    /\ loc[t].h > 0 => loc[t].h \notin DOMAIN model_idr'
                    /\ DOMAIN model_idr' \subseteq DOMAIN model_idr
               ELSE model_idr' = model_idr /\ heap' = heap]_vars

\* a load_model whose result could not be copied out is about to return
\* -EFAULT: it has taken its handle out of the table again and still holds
\* its record, which the return frees
C26_LateFailureSeen ==
    \E t \in Threads :
        /\ pc[t] = "load_unwind_unlock" /\ lock = t
        /\ loc[t].h > 0 /\ loc[t].h \notin DOMAIN model_idr
        /\ loc[t].p \in heap /\ leaks = 0

\* C27: unload_model of a registered model handle returns 0 and takes the
\* handle out of the model table, so that a submit that names it afterwards
\* is refused; unload_model of a handle that is not registered returns
\* -ENOENT.
C27_UnloadRemovesModel ==
    \A t \in Threads :
        (pc[t] = "ret" /\ loc[t].nr = AI_IOC_UNLOAD_MODEL) =>
            IF loc[t].known
            THEN /\ loc[t].ret = "0"
                 /\ loc[t].m \notin DOMAIN model_idr
                 /\ \A u \in Threads :
                       (pc[u] = "submit_unlock" /\ loc[u].m = loc[t].m)
                           => ~loc[u].valid
            ELSE loc[t].ret = "-ENOENT"

\* C28: wait reports a status only for a fence that was handed out: for
\* such a fence it returns the job's status or a timeout, for any other
\* fence an error.
C28_WaitKnowsIssuedFences ==
    \A t \in Threads :
        (pc[t] = "ret" /\ loc[t].nr = AI_IOC_WAIT) =>
            IF loc[t].known
            THEN loc[t].ret \in {"0", "-ETIMEDOUT"}
            ELSE loc[t].ret # "0"

(***************************************************************************)
(* C31: in every reachable state of the memory manager of ai_ioctl.c,      *)
(* under every interleaving of alloc_memory and free_memory calls of       *)
(* different openers, 0 <= mem_used <= mem_size.                           *)
(***************************************************************************)
C31_MemUsedWithinBudget ==
    /\ 0 <= adev.mem_used
    /\ adev.mem_used <= mem_size

(***************************************************************************)
(* C32: ai_alloc_buffer followed by ai_free_buffer of the same buffer      *)
(* takes from mem_used exactly what the allocation added, although the     *)
(* kernel rounded the requested size up to whole pages, so mem_used is     *)
(* back at its value before the allocation; an alloc_memory that fails,    *)
(* also after it charged the counter, leaves mem_used as it found it.      *)
(***************************************************************************)
C32_AllocFreeRoundTrip ==
    /\ (ioc.cmd = "ALLOC_MEM" /\ ioc.ret = "0")
          => adev.mem_used = hist.before + ioc.size
    /\ (ioc.cmd = "ALLOC_MEM" /\ ioc.ret # "0")
          => adev.mem_used = hist.before
    /\ buffer.state = "live" => buffer.charged = buffer.size
    /\ (libcall.fn = "ai_free_buffer" /\ libcall.ret = "AI_SUCCESS"
        /\ ioc.cmd = "FREE_MEM")
          => adev.mem_used = hist.before - buffer.charged

\* a buffer asked for with a size that is no page multiple was freed while
\* another opener's block stayed charged
C32_RoundedBufferFreed ==
    /\ libcall.fn = "ai_free_buffer" /\ libcall.ret = "AI_SUCCESS"
    /\ ioc.cmd = "FREE_MEM"
    /\ buffer.charged = 2 * PAGE_SIZE
    /\ adev.mem_used = PAGE_SIZE

\* the last library call was a copy that has returned to its caller
CopyReturned ==
    /\ libcall.fn \in {"ai_copy_to_device", "ai_copy_from_device"}
    /\ libcall.ret # "SIGSEGV"
    /\ buffer.pc = "idle"

(***************************************************************************)
(* C33: ai_copy_to_device and ai_copy_from_device leave the buffer's       *)
(* mapping as they found it: a buffer mapped before the call is mapped at  *)
(* the same address after it, a buffer unmapped before is unmapped after.  *)
(***************************************************************************)
C33_CopyKeepsMapping ==
    CopyReturned =>
        /\ buffer.mapped_ptr = libcall.pre
        /\ buffer.is_mapped = (IF libcall.pre = NULL THEN 0 ELSE 1)

(***************************************************************************)
(* C34: a copy whose (offset, size) range is not contained in the buffer,  *)
(* pairs whose sum wraps around size_t included, returns                   *)
(* AI_ERROR_INVALID_PARAM and has neither mapped nor copied.               *)
(***************************************************************************)
C34_CopyRejectsOutOfRange ==
    (/\ libcall.fn \in {"ai_copy_to_device", "ai_copy_from_device"}
     /\ libcall.out.range = "out")
        => /\ libcall.ret = "AI_ERROR_INVALID_PARAM"
           /\ ~libcall.out.mapped /\ ~libcall.out.copied

(***************************************************************************)
(* C35: mapping is idempotent and balanced: ai_map_buffer on a mapped      *)
(* buffer returns the address it has and maps nothing anew,                *)
(* ai_unmap_buffer on an unmapped buffer succeeds and changes nothing, a   *)
(* failed ai_map_buffer leaves the buffer unmapped with a null mapped_ptr, *)
(* and in every state is_mapped = 1 exactly when mapped_ptr is not null.   *)
(***************************************************************************)
C35_MapIdempotentBalanced ==
    /\ (buffer.is_mapped = 1) <=> (buffer.mapped_ptr # NULL)
    /\ buffer.is_mapped \in {0, 1}
    /\ (buffer.mapped_ptr # NULL) <=> buffer.vma
    /\ (libcall.fn = "ai_map_buffer" /\ buffer.state = "live"
        /\ buffer.pc = "idle") =>
          /\ libcall.pre # NULL =>
                /\ libcall.ret = "AI_SUCCESS"
                /\ libcall.out = libcall.pre
                /\ buffer.mapped_ptr = libcall.pre
          /\ libcall.ret = "AI_SUCCESS" =>
                (buffer.is_mapped = 1 /\ libcall.out = buffer.mapped_ptr)
          /\ libcall.ret # "AI_SUCCESS" =>
                (buffer.is_mapped = 0 /\ buffer.mapped_ptr = NULL)
    /\ (libcall.fn = "ai_unmap_buffer" /\ buffer.state = "live"
        /\ buffer.pc = "idle") =>
          /\ libcall.ret = "AI_SUCCESS"
          /\ buffer.is_mapped = 0

\* ai_map_buffer has returned for a buffer that was mapped, at address 2,
\* when it was called
C35_MappedTwiceSeen ==
    /\ libcall.fn = "ai_map_buffer" /\ libcall.ret = "AI_SUCCESS"
    /\ libcall.pre = 2 /\ buffer.state = "live" /\ buffer.pc = "idle"
    /\ buffer.mapped_ptr = 2

\* t returns from ai_ioctl_submit with an error
SubmitFails(t) ==
    /\ pc[t] \in SubmitPcs \cup {"submit_unlock"} \/ SubmitFault(t)
    /\ pc'[t] = "ret" /\ loc'[t].ret # "0"

(***************************************************************************)
(* C36: a submit that returns an error, on whatever path, has left the     *)
(* fence counter, total_inferences and total_bytes_processed alone: the    *)
(* call has drawn no fence and its returning step changes no counter.      *)
(***************************************************************************)
C36_FailedSubmitCountsNothing ==
    [][\A t \in Threads :
          SubmitFails(t) =>
              /\ ~CanCall(t) => loc[t].fence = U64Zero
              /\ fence_counter' = fence_counter
              /\ total_inferences' = total_inferences
              /\ total_bytes_processed' = total_bytes_processed]_vars

\* the number of fences issued since ai_accel_init: the counter starts at 0
\* and every fence is the counter after one more increment, so the low 32
\* bits of the log's first fence are its number, and the later ones follow
FencesIssued ==
    IF fence_log = <<>> THEN U64Zero
    ELSE U64Add(<<0, 0, fence_log[1].fence[3], fence_log[1].fence[4]>>,
                Len(fence_log) - 1)

(***************************************************************************)
(* C37: in every reachable state total_inferences <= fence_counter (the    *)
(* counter read as an unsigned 32-bit value), and whenever no submit is in *)
(* progress total_inferences is the number of fences issued since the      *)
(* device was initialised; both are 0 before the first fence.              *)
(***************************************************************************)
C37_InferencesTrailFences ==
    /\ ~U64Less(ZeroExt32(fence_counter), total_inferences)
    /\ (\A t \in Threads : pc[t] \notin SubmitPcs)
          => total_inferences = FencesIssued
    /\ fence_log = <<>> =>
          (fence_counter = 0 /\ total_inferences = U64Zero)

\* one caller uses ai_dma_transfer_sync
OneTransferCaller == Copies(xfers, DOMAIN xfers) = 1

\* a call of ai_dma_transfer_sync has started and not returned
InTransfer == \E x \in DOMAIN xfers : x.pc \notin {"idle", "ret"}

(***************************************************************************)
(* C38: every handler has released dev->lock when it returns, on error     *)
(* paths too; the holder of dev->lock is inside a critical section of an   *)
(* ioctl handler and the holder of channel_lock inside the channel search  *)
(* of a transfer, so that no caller holds both; and under fair scheduling  *)
(* every lock taken is released and every started alloc, free,             *)
(* load_model, submit and transfer_sync call returns.  The transfer        *)
(* contexts are a bag and have no names, so the return of each transfer    *)
(* call is stated for one transfer caller beside the two ioctl threads:    *)
(* with more, calls that overlap for ever keep some transfer in flight.    *)
(***************************************************************************)
C38_LocksReleasedCallsReturn ==
    /\ [](\A t \in Threads :
            /\ CanCall(t) => lock # t
            /\ lock = t => pc[t] \in {"alloc_unlock", "alloc_unwind_unlock",
                                      "free_unlock", "load_unlock",
                                      "load_unwind_unlock", "submit_unlock"})
    /\ [](channel_lock =
            Copies(xfers, {x \in DOMAIN xfers : x.pc = "sync_search"}))
    /\ \A t \in Threads : (~CanCall(t)) ~> (pc[t] = "ret")
    /\ OneTransferCaller => (InTransfer ~> ~InTransfer)
    /\ (lock # 0) ~> (lock = 0)
    /\ (channel_lock = 1) ~> (channel_lock = 0)

\* a load_model that must undo its registration waits for the mutex, which a
\* free or submit of the other thread holds, while a transfer waits for its
\* completion
C38_WaiterBesideHolderSeen ==
    /\ \E t \in Threads, u \in Threads :
          pc[t] = "load_unwind" /\ lock = u /\ u # t
    /\ \E x \in DOMAIN xfers : x.pc = "sync_wait"

(***************************************************************************)
(* C39: what submit_inference of ai_ioctl.c copies back depends on the     *)
(* caller's input bytes and on the two sizes only: two calls with the same *)
(* input data, input_size and output_size deliver the same output_size     *)
(* bytes, also when output_size > input_size.                              *)
(***************************************************************************)
C39_OutputFromInputOnly ==
    Len(delivered) = 2 =>
        ((/\ delivered[1].input = delivered[2].input
          /\ delivered[1].input_size = delivered[2].input_size
          /\ delivered[1].output_size = delivered[2].output_size)
            => delivered[1].output = delivered[2].output)

====
